---- MODULE Spec2Model ----
(***************************************************************************)
(* Model of the catalog core of efoodScraper: the text extractors, the     *)
(* store size discoverer, the offer resolver (_parse_offer) and the two    *)
(* catalog-to-deals entry points (_parse_catalog_dict of api_client.py and *)
(* parse_catalog / catalog_to_deals of catalog_parser.py).                 *)
(*                                                                         *)
(* Texts are sequences of one-character strings, so that the regular       *)
(* expressions and substring tests of the source are computed character by *)
(* character.  Prices are counted in cents.  A JSON object is a record     *)
(* whose fields hold tagged values; a key that is missing from the object  *)
(* holds Absent, a key whose value is JSON null holds None.                *)
(***************************************************************************)
EXTENDS Integers, Sequences, FiniteSets, TLC

(***************************************************************************)
(* Python values                                                           *)
(***************************************************************************)
Absent == [k |-> "absent"]
None == [k |-> "none"]
Num(n) == [k |-> "num", n |-> n]
Str(s) == [k |-> "str", s |-> s]
List(l) == [k |-> "list", l |-> l]
Dict(d) == [k |-> "dict", d |-> d]

IsAbsent(v) == v.k = "absent"
IsNone(v) == v.k = "none"
IsNum(v) == v.k = "num"
IsStr(v) == v.k = "str"
IsList(v) == v.k = "list"
IsDict(v) == v.k = "dict"

\* dict.get(key, default): the default only replaces a missing key
\* d.get(key) with the default left out: None when the key is absent
Get_NoDefault(d, key, default) == IF IsAbsent(d[key]) THEN None ELSE d[key]

Get(d, key, default) == IF IsAbsent(d[key]) THEN default ELSE d[key]

\* Python truth value of a value ("if x", "not x", "x or y")
Truthy(v) ==
    CASE IsNone(v) -> FALSE
      [] IsNum(v) -> v.n # 0
      [] IsStr(v) -> Len(v.s) > 0
      [] IsList(v) -> Len(v.l) > 0
      [] IsDict(v) -> TRUE
      [] OTHER -> FALSE

EmptyStr == Str(<<>>)
EmptyList == List(<<>>)

(***************************************************************************)
(* Characters and str.lower()                                              *)
(***************************************************************************)
Digits == {"0", "1", "2", "3", "4", "5", "6", "7", "8", "9"}
Whitespace == {" "}

DigitVal(c) ==
    CASE c = "0" -> 0 [] c = "1" -> 1 [] c = "2" -> 2 [] c = "3" -> 3
      [] c = "4" -> 4 [] c = "5" -> 5 [] c = "6" -> 6 [] c = "7" -> 7
      [] c = "8" -> 8 [] c = "9" -> 9

\* the capital letters of the Greek and Latin alphabets
LowerTable ==
    "Α" :> "α" @@ "Β" :> "β" @@ "Γ" :> "γ" @@ "Δ" :> "δ" @@ "Ε" :> "ε" @@ "Ζ" :> "ζ" @@
    "Η" :> "η" @@ "Θ" :> "θ" @@ "Ι" :> "ι" @@ "Κ" :> "κ" @@ "Λ" :> "λ" @@ "Μ" :> "μ" @@
    "Ν" :> "ν" @@ "Ξ" :> "ξ" @@ "Ο" :> "ο" @@ "Π" :> "π" @@ "Ρ" :> "ρ" @@ "Σ" :> "σ" @@
    "Τ" :> "τ" @@ "Υ" :> "υ" @@ "Φ" :> "φ" @@ "Χ" :> "χ" @@ "Ψ" :> "ψ" @@ "Ω" :> "ω" @@
    "Ά" :> "ά" @@ "Έ" :> "έ" @@ "Ή" :> "ή" @@ "Ί" :> "ί" @@ "Ό" :> "ό" @@ "Ύ" :> "ύ" @@
    "Ώ" :> "ώ" @@ "A" :> "a" @@ "B" :> "b" @@ "C" :> "c" @@ "D" :> "d" @@ "E" :> "e" @@
    "F" :> "f" @@ "G" :> "g" @@ "H" :> "h" @@ "I" :> "i" @@ "J" :> "j" @@ "K" :> "k" @@
    "L" :> "l" @@ "M" :> "m" @@ "N" :> "n" @@ "O" :> "o" @@ "P" :> "p" @@ "Q" :> "q" @@
    "R" :> "r" @@ "S" :> "s" @@ "T" :> "t" @@ "U" :> "u" @@ "V" :> "v" @@ "W" :> "w" @@
    "X" :> "x" @@ "Y" :> "y" @@ "Z" :> "z"

LowerChar(c) == IF c \in DOMAIN LowerTable THEN LowerTable[c] ELSE c

\* str.lower(): a capital sigma that ends a word becomes the final sigma
Lower(s) ==
    [i \in 1..Len(s) |->
        IF /\ s[i] = "Σ"
           /\ i > 1 /\ s[i - 1] \notin Whitespace
           /\ (i = Len(s) \/ s[i + 1] \in Whitespace)
        THEN "ς" ELSE LowerChar(s[i])]

\* pat occurs in s at position i
MatchAt(s, i, pat) ==
    /\ i >= 1
    /\ i + Len(pat) - 1 <= Len(s)
    /\ \A j \in 1..Len(pat) : s[i + j - 1] = pat[j]

\* Python "pat in s"
Contains(s, pat) == \E i \in 1..Len(s) : MatchAt(s, i, pat)

\* end of the maximal run of characters of set cs that starts at i
\* (i - 1 when s[i] is not in cs)
RECURSIVE RunEnd(_, _, _)
RunEnd(s, i, cs) ==
    IF i <= Len(s) /\ s[i] \in cs THEN RunEnd(s, i + 1, cs) ELSE i - 1

\* int() of the digit string s[i..j]
RECURSIVE DigitsToInt(_, _, _)
DigitsToInt(s, i, j) ==
    IF j < i THEN 0 ELSE DigitsToInt(s, i, j - 1) * 10 + DigitVal(s[j])

\* positions at which the regex digits-whitespace-literal matches, where the
\* literal is one of the alternatives lits
DigitsThenMatches(s, lits) ==
    {i \in 1..Len(s) :
        /\ s[i] \in Digits
        /\ LET j == RunEnd(s, i, Digits)
               m == RunEnd(s, j + 1, Whitespace)
           IN  \E lit \in lits : MatchAt(s, m + 1, lit)}

Min(S) == CHOOSE x \in S : \A y \in S : x <= y

\* the integer of group 1 of the leftmost match of digits-whitespace-literal
DigitsThenValue(s, lits) ==
    LET ms == DigitsThenMatches(s, lits)
    IN  IF ms = {} THEN None
        ELSE LET i == Min(ms) IN Num(DigitsToInt(s, i, RunEnd(s, i, Digits)))

(***************************************************************************)
(* Text extractors (vfm.py, catalog_parser.py)                             *)
(***************************************************************************)
w_cm == <<"c", "m">>
w_Pits == <<"Π", "ί", "τ", "σ">>
w_pits == <<"π", "ί", "τ", "σ">>
w_Gigas == <<"Γ", "ί", "γ", "α", "ς">>
w_gigas == <<"γ", "ί", "γ", "α", "ς">>
w_gigas_plain == <<"γ", "ι", "γ", "α", "ς">>
w_Oikogeneiak == <<"Ο", "ι", "κ", "ο", "γ", "ε", "ν", "ε", "ι", "α", "κ">>
w_oikogeneiak == <<"ο", "ι", "κ", "ο", "γ", "ε", "ν", "ε", "ι", "α", "κ">>
w_megal_acc == <<"μ", "ε", "γ", "ά", "λ">>
w_megal == <<"μ", "ε", "γ", "α", "λ">>
w_kanonik == <<"κ", "α", "ν", "ο", "ν", "ι", "κ">>
w_mikr == <<"μ", "ι", "κ", "ρ">>
w_atomik == <<"α", "τ", "ο", "μ", "ι", "κ">>
w_mesai == <<"μ", "ε", "σ", "α", "ι">>
w_jumbo == <<"j", "u", "m", "b", "o">>
w_tetragon == <<"τ", "ε", "τ", "ρ", "α", "γ", "ω", "ν">>
w_prosfores == <<"π", "ρ", "ο", "σ", "φ", "ο", "ρ", "έ", "ς">>
w_offers == <<"o", "f", "f", "e", "r", "s">>
w_deals == <<"d", "e", "a", "l", "s">>

\* normalized size names (the keys of the size maps)
n_gigas == <<"γ", "ί", "γ", "α", "ς">>
n_oikogeneiaki == <<"ο", "ι", "κ", "ο", "γ", "ε", "ν", "ε", "ι", "α", "κ", "ή">>
n_megali == <<"μ", "ε", "γ", "ά", "λ", "η">>
n_kanoniki == <<"κ", "α", "ν", "ο", "ν", "ι", "κ", "ή">>
n_mikri == <<"μ", "ι", "κ", "ρ", "ή">>
n_mesaia == <<"μ", "ε", "σ", "α", "ί", "α">>
n_jumbo == <<"j", "u", "m", "b", "o">>

\* config.SIZE_DIAMETERS
SIZE_DIAMETERS ==
    (n_mikri :> 25) @@ (n_kanoniki :> 30) @@ (n_mesaia :> 32) @@
    (n_megali :> 36) @@ (n_oikogeneiaki :> 36) @@ (n_gigas :> 40) @@
    (n_jumbo :> 45)

\* vfm.parse_diameter: re.search(r"(\d+)\s*cm", text, re.IGNORECASE)
parse_diameter(text) == DigitsThenValue(Lower(text), {w_cm})

\* catalog_parser.extract_size_from_text
\* a text without a size keyword taken for the regular size
extract_size_from_text_Regular(text) ==
    LET lower == Lower(text)
    IN  IF Contains(lower, w_gigas) \/ Contains(lower, w_gigas_plain)
          THEN Str(n_gigas)
        ELSE IF Contains(lower, w_oikogeneiak) THEN Str(n_oikogeneiaki)
        ELSE IF Contains(lower, w_megal_acc) THEN Str(n_megali)
        ELSE Str(n_kanoniki)

extract_size_from_text(text) ==
    LET lower == Lower(text)
    IN  IF Contains(lower, w_gigas) \/ Contains(lower, w_gigas_plain)
          THEN Str(n_gigas)
        ELSE IF Contains(lower, w_oikogeneiak) THEN Str(n_oikogeneiaki)
        ELSE IF Contains(lower, w_megal_acc) THEN Str(n_megali)
        ELSE IF Contains(lower, w_kanonik) THEN Str(n_kanoniki)
        ELSE IF Contains(lower, w_mikr) THEN Str(n_mikri)
        ELSE None

\* the number in the title ignored: one pizza whatever the title says
extract_quantity_from_title_One(title) == 1

\* catalog_parser.extract_quantity_from_title
extract_quantity_from_title(title) ==
    LET m == DigitsThenValue(title, {w_Pits, w_pits})
    IN  IF IsNum(m) THEN m.n ELSE 1

\* re.search(r"[Ππ]ίτσ", title)
HasPizzaStem(text) == Contains(text, w_Pits) \/ Contains(text, w_pits)

\* re.search(r"[Ππ]ίτσ|[Γγ]ίγας|[Οο]ικογενειακ", item_cat)
IsPizzaTierText(text) ==
    \/ HasPizzaStem(text)
    \/ Contains(text, w_Gigas) \/ Contains(text, w_gigas)
    \/ Contains(text, w_Oikogeneiak) \/ Contains(text, w_oikogeneiak)

(***************************************************************************)
(* Offer resolver (catalog_parser._parse_offer)                            *)
(***************************************************************************)
\* an exception leaves the function
Raise(e) == [k |-> "raise", e |-> e]
IsRaise(v) == v.k = "raise"

\* str.replace("€", "").replace(",", ".").strip()
RECURSIVE CleanPrice(_)
CleanPrice(s) ==
    IF s = <<>> THEN <<>>
    ELSE LET c == Head(s)
             rest == CleanPrice(Tail(s))
         IN  IF c = "€" THEN rest
             ELSE IF c = "," THEN <<".">> \o rest
             ELSE <<c>> \o rest

\* float() of the match of (\d+\.?\d*) that starts at i, in cents (digits
\* after the second decimal are dropped)
FloatCents(s, i) ==
    LET j == RunEnd(s, i, Digits)
        hasDot == j + 1 <= Len(s) /\ s[j + 1] = "."
        f == IF hasDot THEN RunEnd(s, j + 2, Digits) ELSE j
        d1 == IF hasDot /\ f >= j + 2 THEN DigitVal(s[j + 2]) ELSE 0
        d2 == IF hasDot /\ f >= j + 3 THEN DigitVal(s[j + 3]) ELSE 0
    IN  DigitsToInt(s, i, j) * 100 + d1 * 10 + d2

\* catalog_parser._parse_calculated_price
_parse_calculated_price(text) ==
    IF ~Truthy(text) THEN None
    ELSE IF ~IsStr(text) THEN Raise("AttributeError")
    ELSE LET cleaned == CleanPrice(text.s)
             ds == {i \in 1..Len(cleaned) : cleaned[i] \in Digits}
         IN  IF ds = {} THEN None ELSE Num(FloatCents(cleaned, Min(ds)))

\* the calculated price taken first, the direct price as the fallback
OfferPrice_CalculatedFirst(offer) ==
    LET calculated ==
            _parse_calculated_price(Get(offer, "calculated_price", None))
    IN  IF IsNone(calculated) THEN Get(offer, "price", None) ELSE calculated

\* the price of lines 188-191
OfferPrice(offer) ==
    LET price == Get(offer, "price", None)
    IN  IF IsNone(price)
        THEN _parse_calculated_price(Get(offer, "calculated_price", None))
        ELSE price

\* the loop over the tiers with every tier that has items counted as a pizza
\* tier, whatever the category name of its first item
RECURSIVE TierScan_EveryTier(_, _, _)
TierScan_EveryTier(tiers, i, acc) ==
    IF i > Len(tiers) \/ IsRaise(acc) THEN acc
    ELSE LET tier == tiers[i]
             tier_qty == Get(tier, "quantity", Num(1))
             items == Get(tier, "items", EmptyList)
         IN  IF ~Truthy(items) THEN TierScan_EveryTier(tiers, i + 1, acc)
             ELSE LET first_item == items.l[1]
                      item_cat == Get(first_item, "category_name", EmptyStr)
                  IN  IF ~IsStr(item_cat) THEN Raise("TypeError")
                      ELSE IF ~IsNum(tier_qty) THEN Raise("TypeError")
                      ELSE TierScan_EveryTier(tiers, i + 1,
                             [k |-> "acc",
                              pizza_quantity |-> acc.pizza_quantity + tier_qty.n,
                              candidate_size_text |-> item_cat.s,
                              size_name |->
                                  IF ~Truthy(acc.size_name)
                                  THEN extract_size_from_text(item_cat.s)
                                  ELSE acc.size_name])

\* the loop over the tiers of lines 200-221; acc holds size_name,
\* pizza_quantity and candidate_size_text, or the exception that was raised
RECURSIVE TierScan(_, _, _)
TierScan(tiers, i, acc) ==
    IF i > Len(tiers) \/ IsRaise(acc) THEN acc
    ELSE LET tier == tiers[i]
             tier_qty == Get(tier, "quantity", Num(1))
             items == Get(tier, "items", EmptyList)
         IN  IF ~Truthy(items) THEN TierScan(tiers, i + 1, acc)
             ELSE LET first_item == items.l[1]
                      item_cat == Get(first_item, "category_name", EmptyStr)
                  IN  IF ~IsStr(item_cat) THEN Raise("TypeError")
                      ELSE IF ~IsPizzaTierText(item_cat.s)
                        THEN TierScan(tiers, i + 1, acc)
                      ELSE IF ~IsNum(tier_qty) THEN Raise("TypeError")
                      ELSE TierScan(tiers, i + 1,
                             [k |-> "acc",
                              pizza_quantity |-> acc.pizza_quantity + tier_qty.n,
                              candidate_size_text |-> item_cat.s,
                              size_name |->
                                  IF ~Truthy(acc.size_name)
                                  THEN extract_size_from_text(item_cat.s)
                                  ELSE acc.size_name])

\* the loop over the tier descriptions of lines 244-252
RECURSIVE DescScan(_, _)
DescScan(tiers, i) ==
    IF i > Len(tiers) THEN None
    ELSE LET tier == tiers[i]
         IN  IF ~Truthy(Get(tier, "items", None)) THEN DescScan(tiers, i + 1)
             ELSE LET first_item == tier.items.l[1]
                      desc == Get(first_item, "description", EmptyStr)
                  IN  IF ~Truthy(desc) THEN DescScan(tiers, i + 1)
                      ELSE IF ~IsStr(desc) THEN Raise("TypeError")
                      ELSE LET desc_cm == parse_diameter(desc.s)
                           IN  IF Truthy(desc_cm) THEN desc_cm
                               ELSE DescScan(tiers, i + 1)

\* ResolveSizeCm with the tier category name consulted before the title
ResolveSizeCm_TierFirst(title, tiers, candidate_size_text, size_name, store_size_map) ==
    LET tier_cm == IF candidate_size_text # <<>>
                   THEN parse_diameter(candidate_size_text) ELSE None
        explicit_cm == parse_diameter(title)
        s1 == IF Truthy(tier_cm) THEN tier_cm
              ELSE IF Truthy(explicit_cm) THEN explicit_cm ELSE None
        s2 == IF ~Truthy(s1) /\ Truthy(tiers)
              THEN LET d == DescScan(tiers.l, 1)
                   IN  IF IsNone(d) THEN s1 ELSE d
              ELSE s1
    IN  IF IsRaise(s2) THEN s2
        ELSE LET s3 == IF /\ ~Truthy(s2) /\ Truthy(size_name)
                          /\ size_name.s \in DOMAIN store_size_map
                       THEN Num(store_size_map[size_name.s]) ELSE s2
             IN  IF ~Truthy(s3)
                 THEN IF Truthy(size_name) /\ size_name.s \in DOMAIN SIZE_DIAMETERS
                      THEN Num(SIZE_DIAMETERS[size_name.s]) ELSE None
                 ELSE s3

\* ResolveSizeCm with the global default table consulted before the store map
ResolveSizeCm_DefaultFirst(title, tiers, candidate_size_text, size_name, store_size_map) ==
    LET explicit_cm == parse_diameter(title)
        s0 == IF Truthy(explicit_cm) THEN explicit_cm ELSE None
        s1 == IF ~Truthy(s0) /\ candidate_size_text # <<>>
              THEN parse_diameter(candidate_size_text) ELSE s0
        s2 == IF ~Truthy(s1) /\ Truthy(tiers)
              THEN LET d == DescScan(tiers.l, 1)
                   IN  IF IsNone(d) THEN s1 ELSE d
              ELSE s1
    IN  IF IsRaise(s2) THEN s2
        ELSE LET s3 == IF /\ ~Truthy(s2) /\ Truthy(size_name)
                          /\ size_name.s \in DOMAIN SIZE_DIAMETERS
                       THEN Num(SIZE_DIAMETERS[size_name.s]) ELSE s2
             IN  IF ~Truthy(s3)
                 THEN IF Truthy(size_name) /\ size_name.s \in DOMAIN store_size_map
                      THEN Num(store_size_map[size_name.s]) ELSE None
                 ELSE s3

\* the diameter of lines 231-261
ResolveSizeCm(title, tiers, candidate_size_text, size_name, store_size_map) ==
    LET explicit_cm == parse_diameter(title)
        s0 == IF Truthy(explicit_cm) THEN explicit_cm ELSE None
        s1 == IF ~Truthy(s0) /\ candidate_size_text # <<>>
              THEN parse_diameter(candidate_size_text) ELSE s0
        s2 == IF ~Truthy(s1) /\ Truthy(tiers)
              THEN LET d == DescScan(tiers.l, 1)
                   IN  IF IsNone(d) THEN s1 ELSE d
              ELSE s1
    IN  IF IsRaise(s2) THEN s2
        ELSE LET s3 == IF /\ ~Truthy(s2) /\ Truthy(size_name)
                          /\ size_name.s \in DOMAIN store_size_map
                       THEN Num(store_size_map[size_name.s]) ELSE s2
             IN  IF ~Truthy(s3)
                 THEN IF Truthy(size_name) /\ size_name.s \in DOMAIN SIZE_DIAMETERS
                      THEN Num(SIZE_DIAMETERS[size_name.s]) ELSE None
                 ELSE s3

\* catalog_parser._parse_offer: None, a ParsedDeal, or the exception raised
_parse_offer(offer, store_size_map) ==
    LET title == Get(offer, "title", EmptyStr)
    IN  IF ~IsStr(title) THEN Raise("TypeError")
        ELSE IF ~HasPizzaStem(title.s) THEN None
        ELSE
        LET price == OfferPrice(offer)
            tiers == Get(offer, "tiers", EmptyList)
        IN  IF IsRaise(price) THEN price
            ELSE IF ~IsList(tiers) THEN Raise("TypeError")
            ELSE
            LET acc == TierScan(tiers.l, 1,
                         [k |-> "acc", pizza_quantity |-> 0,
                          candidate_size_text |-> <<>>, size_name |-> None])
            IN  IF IsRaise(acc) THEN acc
                ELSE
                LET size_name == IF ~Truthy(acc.size_name)
                                 THEN extract_size_from_text(title.s)
                                 ELSE acc.size_name
                    pizza_quantity == IF acc.pizza_quantity = 0
                                      THEN extract_quantity_from_title(title.s)
                                      ELSE acc.pizza_quantity
                    size_cm == ResolveSizeCm(title.s, tiers,
                                 acc.candidate_size_text, size_name,
                                 store_size_map)
                IN  IF IsRaise(size_cm) THEN size_cm
                    ELSE [k |-> "parsed",
                          title |-> title.s,
                          price |-> price,
                          quantity |-> IF pizza_quantity > 0
                                       THEN pizza_quantity ELSE 1,
                          size_name |-> size_name,
                          size_cm |-> size_cm]

(***************************************************************************)
(* Store size discoverer (catalog_parser.discover_store_sizes)             *)
(***************************************************************************)
\* an object without any key, the default of data.get("data", {})
NoKeys == [menu |-> Absent, categories |-> Absent]

\* the elements of a list-valued field (container fields hold a list or
\* null when they are present)
Elems(v) == IF IsList(v) THEN v.l ELSE <<>>

\* every "for x in ..." of lines 94-117 is given a list; iterating over
\* null raises TypeError
ScanIterable(categories) ==
    \A ci \in 1..Len(categories) :
        LET items == Get(categories[ci], "items", EmptyList)
            offers == Get(categories[ci], "offers", EmptyList)
        IN  /\ IsList(items)
            /\ IsList(offers)
            /\ \A oi \in 1..Len(Elems(offers)) :
                   LET tiers == Get(offers.l[oi], "tiers", EmptyList)
                   IN  /\ IsList(tiers)
                       /\ \A ti \in 1..Len(Elems(tiers)) :
                              IsList(Get(tiers.l[ti], "items", EmptyList))

\* size_keywords, in the insertion order the dict is iterated in
size_keywords ==
    << <<w_atomik, n_mikri>>, <<w_kanonik, n_kanoniki>>,
       <<w_mesai, n_mesaia>>, <<w_megal, n_megali>>,
       <<w_oikogeneiak, n_oikogeneiaki>>, <<w_gigas_plain, n_gigas>>,
       <<w_gigas, n_gigas>>, <<w_jumbo, n_jumbo>>, <<w_tetragon, n_jumbo>> >>

\* a dict[str, int]: m is a function from size names to diameters
Map(m) == [k |-> "map", m |-> m]
IsMap(v) == v.k = "map"
EmptyMap == [x \in {} |-> 0]

\* a fragment that overwrites the entry of an earlier fragment
extract_size_mapping_Overwrite(discovered_sizes, text) ==
    IF ~IsStr(text) THEN Raise("AttributeError")
    ELSE LET text_lower == Lower(text.s)
             size_cm == parse_diameter(text.s)
             hits == {i \in 1..Len(size_keywords) :
                         Contains(text_lower, size_keywords[i][1])}
         IN  IF ~Truthy(size_cm) \/ hits = {} THEN discovered_sizes
             ELSE LET normalized == size_keywords[Min(hits)][2]
                  IN  Map([n \in DOMAIN discovered_sizes.m \cup {normalized}
                              |-> IF n = normalized THEN size_cm.n
                                  ELSE discovered_sizes.m[n]])

\* extract_size_mapping: discovered_sizes after scanning text
extract_size_mapping(discovered_sizes, text) ==
    IF ~IsStr(text) THEN Raise("AttributeError")
    ELSE LET text_lower == Lower(text.s)
             size_cm == parse_diameter(text.s)
             hits == {i \in 1..Len(size_keywords) :
                         Contains(text_lower, size_keywords[i][1])}
         IN  IF ~Truthy(size_cm) \/ hits = {} THEN discovered_sizes
             ELSE LET normalized == size_keywords[Min(hits)][2]
                  IN  IF normalized \in DOMAIN discovered_sizes.m
                      THEN discovered_sizes
                      ELSE Map(discovered_sizes.m @@ (normalized :> size_cm.n))

\* item.get("title", "") or item.get("name", "")
TitleOrName(item) ==
    LET t == Get(item, "title", EmptyStr)
    IN  IF Truthy(t) THEN t ELSE Get(item, "name", EmptyStr)

ItemFragments(item) ==
    << Get(item, "description", EmptyStr), TitleOrName(item) >>

RECURSIVE ItemsFragments(_)
ItemsFragments(items) ==
    IF items = <<>> THEN <<>>
    ELSE ItemFragments(Head(items)) \o ItemsFragments(Tail(items))

TierItemFragments(item) ==
    << Get(item, "category_name", EmptyStr),
       Get(item, "description", EmptyStr) >>

RECURSIVE TierItemsFragments(_)
TierItemsFragments(items) ==
    IF items = <<>> THEN <<>>
    ELSE TierItemFragments(Head(items)) \o TierItemsFragments(Tail(items))

RECURSIVE TiersFragments(_)
TiersFragments(tiers) ==
    IF tiers = <<>> THEN <<>>
    ELSE TierItemsFragments(Elems(Get(Head(tiers), "items", EmptyList)))
         \o TiersFragments(Tail(tiers))

RECURSIVE OffersFragments(_)
OffersFragments(offers) ==
    IF offers = <<>> THEN <<>>
    ELSE TiersFragments(Elems(Get(Head(offers), "tiers", EmptyList)))
         \o OffersFragments(Tail(offers))

\* the texts one category hands to extract_size_mapping, in scan order; the
\* first two are also the operands of the .lower() calls of lines 95-96
CategoryFragments(cat) ==
    << Get(cat, "name", EmptyStr), Get(cat, "title", EmptyStr) >>
    \o ItemsFragments(Elems(Get(cat, "items", EmptyList)))
    \o OffersFragments(Elems(Get(cat, "offers", EmptyList)))

RECURSIVE CategoriesFragments(_)
CategoriesFragments(categories) ==
    IF categories = <<>> THEN <<>>
    ELSE CategoryFragments(Head(categories))
         \o CategoriesFragments(Tail(categories))

RECURSIVE ScanFragments(_, _)
ScanFragments(discovered_sizes, frags) ==
    IF frags = <<>> \/ IsRaise(discovered_sizes) THEN discovered_sizes
    ELSE ScanFragments(extract_size_mapping(discovered_sizes, Head(frags)),
                       Tail(frags))

\* discover_store_sizes: the discovered map, or the exception raised
discover_store_sizes(categories) ==
    LET scanned == ScanFragments(Map(EmptyMap),
                                 CategoriesFragments(categories))
    IN  IF ~ScanIterable(categories) THEN Raise("TypeError") ELSE scanned

(***************************************************************************)
(* VFM calculator (vfm.calculate_vfm)                                      *)
(***************************************************************************)
\* Amounts of money are in cents, ratings, areas, factors and indexes in
\* hundredths: round(x, 2) of the source is the nearest number of hundredths.

\* r / D in units of 1e-8, for 0 <= r < D
FracDiv(r, D) ==
    LET x == r * 10000
    IN  ((x \div D) * 10000) + (((x % D) * 10000) \div D)

\* pi * N / D rounded to the nearest integer, with pi taken as
\* 3.141592653589 and the products staged so that each stays below 2^31
\* (N \div D up to 230000, D up to 200000)
RoundPiRatio(N, D) ==
    LET a == N \div D
        b == N % D
        a1 == a * 1415
        a2 == a * 9265
        a3 == a * 3589
        b0 == 3 * b
        b1 == b * 1415
        whole == (3 * a) + (a1 \div 10000) + (a2 \div 100000000) + (b0 \div D)
        frac == ((a1 % 10000) * 10000) + (a2 % 100000000) + (a3 \div 10000)
                + FracDiv(b0 % D, D)
                + ((b1 \div D) * 10000)
                + ((((b1 % D) * 10000) + (b * 9265)) \div D)
    IN  whole + ((frac + 50000000) \div 100000000)

\* round(n / d) for n >= 0, d > 0 whose quotient is never half-way
RoundDiv(n, d) == ((2 * n) + d) \div (2 * d)

\* (rating or 5.0), in hundredths
EffectiveRating(rating) == IF Truthy(rating) THEN rating.n ELSE 500

\* lines 23-37: the VFMMetrics of a diameter and a price that are numbers;
\* the rating factor of line 25 is EffectiveRating / 500 before rounding
\* the total area taken to be the area of one pizza
VfmMetrics_OnePizza(quantity, diameter_cm, price, rating) ==
    LET d2 == diameter_cm.n * diameter_cm.n
    IN  [k |-> "vfm",
         quantity |-> quantity,
         diameter_cm |-> diameter_cm.n,
         single_area_cm2 |-> RoundPiRatio(25 * d2, 1),
         total_area_cm2 |-> RoundPiRatio(25 * d2, 1),
         area_per_euro |-> RoundPiRatio(2500 * d2, price.n),
         rating_factor |-> RoundDiv(EffectiveRating(rating), 5),
         vfm_index |-> RoundPiRatio(5 * d2 * EffectiveRating(rating),
                                    price.n)]

VfmMetrics(quantity, diameter_cm, price, rating) ==
    LET d2 == diameter_cm.n * diameter_cm.n
    IN  [k |-> "vfm",
         quantity |-> quantity,
         diameter_cm |-> diameter_cm.n,
         single_area_cm2 |-> RoundPiRatio(25 * d2, 1),
         total_area_cm2 |-> RoundPiRatio(25 * quantity * d2, 1),
         area_per_euro |-> RoundPiRatio(2500 * quantity * d2, price.n),
         rating_factor |-> RoundDiv(EffectiveRating(rating), 5),
         vfm_index |-> RoundPiRatio(5 * quantity * d2
                                      * EffectiveRating(rating), price.n)]

\* the test of line 20 written "price < 0": a price of 0 reaches the
\* division of line 26
calculate_vfm_NegativeOnly(quantity, diameter_cm, price, rating) ==
    IF ~IsNum(price) THEN Raise("TypeError")
    ELSE IF price.n < 0 THEN Raise("ValueError")
    ELSE IF ~IsNum(diameter_cm) THEN Raise("TypeError")
    ELSE IF price.n = 0 THEN Raise("ZeroDivisionError")
    ELSE VfmMetrics(quantity, diameter_cm, price, rating)

\* calculate_vfm: the metrics record, the ValueError of line 21, or the
\* TypeError of comparing or dividing a value that is no number
calculate_vfm(quantity, diameter_cm, price, rating) ==
    IF ~IsNum(price) THEN Raise("TypeError")
    ELSE IF price.n <= 0 THEN Raise("ValueError")
    ELSE IF ~IsNum(diameter_cm) THEN Raise("TypeError")
    ELSE VfmMetrics(quantity, diameter_cm, price, rating)

(***************************************************************************)
(* Deal ranker (scraper.py lines 434-436 and 591-593)                      *)
(***************************************************************************)
\* the limit of the slice; constants.py says how many, the comment of
\* scraper.py line 448 says "the top 5"
TOP_DEALS_LIMIT == 5

RECURSIVE SortedInsert_Ascending(_, _), SortedInsert_BeforeEqual(_, _)
RECURSIVE SortedInsert(_, _), SortDeals(_)

\* d put behind the deals with a smaller vfm_index: ascending order
SortedInsert_Ascending(sorted, d) ==
    IF sorted = <<>> THEN <<d>>
    ELSE IF Head(sorted).vfm.vfm_index <= d.vfm.vfm_index
         THEN <<Head(sorted)>> \o SortedInsert_Ascending(Tail(sorted), d)
         ELSE <<d>> \o sorted

\* d put before the deals of equal vfm_index instead of behind them
SortedInsert_BeforeEqual(sorted, d) ==
    IF sorted = <<>> THEN <<d>>
    ELSE IF Head(sorted).vfm.vfm_index > d.vfm.vfm_index
         THEN <<Head(sorted)>> \o SortedInsert_BeforeEqual(Tail(sorted), d)
         ELSE <<d>> \o sorted

\* d put into a list sorted by descending vfm_index, behind every deal
\* whose vfm_index is not below its own
SortedInsert(sorted, d) ==
    IF sorted = <<>> THEN <<d>>
    ELSE IF Head(sorted).vfm.vfm_index >= d.vfm.vfm_index
         THEN <<Head(sorted)>> \o SortedInsert(Tail(sorted), d)
         ELSE <<d>> \o sorted

\* deals.sort(key=lambda d: d.vfm.vfm_index, reverse=True): list.sort is
\* stable, with reverse=True too
SortDeals(deals) ==
    IF deals = <<>> THEN <<>>
    ELSE SortedInsert(SortDeals(SubSeq(deals, 1, Len(deals) - 1)),
                      deals[Len(deals)])

\* deals[:TOP_DEALS_LIMIT] of the sorted list
TopDeals(deals) ==
    SubSeq(SortDeals(deals), 1, Min({TOP_DEALS_LIMIT, Len(deals)}))

(***************************************************************************)
(* The catalog document and the two entry points                           *)
(***************************************************************************)
w_ok == <<"o", "k">>

\* data.get("status") != "ok"
StatusNotOk(doc) == Get(doc, "status", None) # Str(w_ok)

\* data.get("data", {}).get("menu", {}).get("categories", []): the list of
\* categories, or the exception of a .get on a value that is no object or of
\* the first "for" over categories that are no list
CatalogCategories(doc) ==
    LET d == Get(doc, "data", Dict(NoKeys))
    IN  IF ~IsDict(d) THEN Raise("AttributeError")
        ELSE LET menu == Get(d.d, "menu", Dict(NoKeys))
             IN  IF ~IsDict(menu) THEN Raise("AttributeError")
                 ELSE LET categories == Get(menu.d, "categories", EmptyList)
                      IN  IF IsList(categories) THEN categories
                          ELSE Raise("TypeError")

\* one unit of work of a catalog loop: the offer (or the item treated as an
\* offer) at position pos of field kind of category cat
WorkItem(cat, kind, pos, offer) ==
    [cat |-> cat, kind |-> kind, pos |-> pos, offer |-> offer]

\* the offers of a category visited from the last to the first
CategoryOffers_Reversed(ci, category) ==
    LET offers == Elems(Get(category, "offers", EmptyList))
    IN  [i \in 1..Len(offers) |->
            WorkItem(ci, "offers", Len(offers) + 1 - i,
                     offers[Len(offers) + 1 - i])]

\* the offers of a category, in order (category.get("offers", []))
CategoryOffers(ci, category) ==
    LET offers == Elems(Get(category, "offers", EmptyList))
    IN  [i \in 1..Len(offers) |-> WorkItem(ci, "offers", i, offers[i])]

\* category.get("title", "").lower() contains "προσφορές", "offers" or "deals"
IsOfferCat(category) ==
    LET cat_title == Lower(Get(category, "title", EmptyStr).s)
    IN  \/ Contains(cat_title, w_prosfores)
        \/ Contains(cat_title, w_offers)
        \/ Contains(cat_title, w_deals)

CategoryItems(ci, category) ==
    LET items == Elems(Get(category, "items", EmptyList))
    IN  IF IsOfferCat(category)
        THEN [i \in 1..Len(items) |-> WorkItem(ci, "items", i, items[i])]
        ELSE <<>>

RECURSIVE WorkFrom(_, _, _)
WorkFrom(categories, ci, withItems) ==
    IF ci > Len(categories) THEN <<>>
    ELSE CategoryOffers(ci, categories[ci])
         \o (IF withItems THEN CategoryItems(ci, categories[ci]) ELSE <<>>)
         \o WorkFrom(categories, ci + 1, withItems)

\* the offers _parse_catalog_dict visits, in order (lines 146-147)
DictWork(doc) == WorkFrom(CatalogCategories(doc).l, 1, FALSE)

\* the offers and items parse_catalog visits, in order (lines 143-161)
FileWork(doc) == WorkFrom(CatalogCategories(doc).l, 1, TRUE)

\* the merge with the operands swapped: a discovered entry is kept over the
\* caller's override of the same size name
MergeOverrides_DiscoveredFirst(discovered, overrides) ==
    IF IsMap(overrides) /\ DOMAIN overrides.m # {}
    THEN Map([n \in DOMAIN discovered.m \cup DOMAIN overrides.m |->
                 IF n \in DOMAIN discovered.m THEN discovered.m[n]
                 ELSE overrides.m[n]])
    ELSE discovered

\* store_size_map.update(size_overrides), done when size_overrides is truthy
MergeOverrides(discovered, overrides) ==
    IF IsMap(overrides) /\ DOMAIN overrides.m # {}
    THEN Map([n \in DOMAIN discovered.m \cup DOMAIN overrides.m |->
                 IF n \in DOMAIN overrides.m THEN overrides.m[n]
                 ELSE discovered.m[n]])
    ELSE discovered

\* the merge done into the caller's dict, which then holds the merged map
OverridesAfterMerge_Aliased(discovered, overrides) ==
    IF IsMap(overrides) /\ DOMAIN overrides.m # {}
    THEN Map([n \in DOMAIN discovered.m \cup DOMAIN overrides.m |->
                 IF n \in DOMAIN overrides.m THEN overrides.m[n]
                 ELSE discovered.m[n]])
    ELSE overrides

\* the caller's size_overrides after lines 138-142: update() writes into the
\* dict discover_store_sizes has just built and only reads its argument
OverridesAfterMerge(discovered, overrides) == overrides

\* the gate without its test of the diameter (lines 154-155 left out)
DictGate_NoSizeTest(parsed) ==
    IF IsNone(parsed) \/ ~Truthy(parsed.price) THEN "skip"
    ELSE IF ~IsNum(parsed.price) THEN "raise"
    ELSE IF parsed.price.n <= 0 THEN "skip"
    ELSE "deal"

\* the gate of api_client.py lines 150-155: "skip", "deal", or the TypeError
\* of comparing a price that is no number with 0
DictGate(parsed) ==
    IF IsNone(parsed) \/ ~Truthy(parsed.price) THEN "skip"
    ELSE IF ~IsNum(parsed.price) THEN "raise"
    ELSE IF parsed.price.n <= 0 THEN "skip"
    ELSE IF ~Truthy(parsed.size_cm) THEN "skip"
    ELSE "deal"

\* the gate without its test of the price against 0
ParseGate_AnyPrice(parsed) ==
    IF IsNone(parsed) \/ ~Truthy(parsed.price) THEN "skip"
    ELSE IF ~IsNum(parsed.price) THEN "raise"
    ELSE "keep"

\* the gate of parse_catalog lines 151 and 160
ParseGate(parsed) ==
    IF IsNone(parsed) \/ ~Truthy(parsed.price) THEN "skip"
    ELSE IF ~IsNum(parsed.price) THEN "raise"
    ELSE IF parsed.price.n > 0 THEN "keep" ELSE "skip"

\* the diameter of catalog_to_deals lines 294-296
OverrideSizeCm(p, overrides) ==
    IF /\ IsMap(overrides) /\ DOMAIN overrides.m # {}
       /\ Truthy(p.size_name) /\ p.size_name.s \in DOMAIN overrides.m
    THEN Num(overrides.m[p.size_name.s])
    ELSE p.size_cm

\* the gate of catalog_to_deals lines 299-300
ConvertGate(size_cm, p) ==
    IF ~Truthy(size_cm) \/ ~Truthy(p.price) THEN "skip" ELSE "deal"

MakeDeal(p, size_cm, metrics) ==
    [name |-> p.title, quantity |-> p.quantity, size_cm |-> size_cm.n,
     price |-> p.price.n, vfm |-> metrics]

\* what lines 150-170 of api_client.py do with the result p of _parse_offer:
\* the outcome "skip", "deal" or "raise", and the Deal when there is one
DictResolve(p, rating) ==
    LET gate == IF IsRaise(p) THEN "raise" ELSE DictGate(p)
        metrics == IF gate = "deal"
                   THEN calculate_vfm(p.quantity, p.size_cm, p.price, rating)
                   ELSE None
        outcome == IF IsRaise(metrics) THEN "raise" ELSE gate
    IN  [outcome |-> outcome,
         deal |-> IF outcome = "deal" THEN MakeDeal(p, p.size_cm, metrics)
                  ELSE None]

(***************************************************************************)
(* Input documents                                                         *)
(***************************************************************************)
\* "2 Πίτσες"
t_plain == <<"2", " ", "Π", "ί", "τ", "σ", "ε", "ς">>
\* "Πίτσα γίγας 40cm"
t_gigas40 == <<"Π", "ί", "τ", "σ", "α", " ", "γ", "ί", "γ", "α", "ς", " ", "4", "0", "c", "m">>
\* "2 Πίτσες οικογενειακές"
t_oikog == <<"2", " ", "Π", "ί", "τ", "σ", "ε", "ς", " ", "ο", "ι", "κ", "ο", "γ", "ε", "ν", "ε", "ι", "α", "κ", "έ", "ς">>
\* "Πίτσα 0cm"
t_zero == <<"Π", "ί", "τ", "σ", "α", " ", "0", "c", "m">>
\* "Burger"
t_burger == <<"B", "u", "r", "g", "e", "r">>
\* "Πίτσες (30cm)"
c_pizza30 == <<"Π", "ί", "τ", "σ", "ε", "ς", " ", "(", "3", "0", "c", "m", ")">>
\* "Πίτσες γίγας"
c_gigas == <<"Π", "ί", "τ", "σ", "ε", "ς", " ", "γ", "ί", "γ", "α", "ς">>
\* "Πίτσες οικογενειακές"
c_oikog == <<"Π", "ί", "τ", "σ", "ε", "ς", " ", "ο", "ι", "κ", "ο", "γ", "ε", "ν", "ε", "ι", "α", "κ", "έ", "ς">>
\* "Πίτσες οικογενειακές (33cm)"
c_oikog33 == <<"Π", "ί", "τ", "σ", "ε", "ς", " ", "ο", "ι", "κ", "ο", "γ", "ε", "ν", "ε", "ι", "α", "κ", "έ", "ς", " ", "(", "3", "3", "c", "m", ")">>
\* "Αναψυκτικά"
c_drink == <<"Α", "ν", "α", "ψ", "υ", "κ", "τ", "ι", "κ", "ά">>
\* "Πίτσες γίγας (45cm)"
c_gigas45 == <<"Π", "ί", "τ", "σ", "ε", "ς", " ", "γ", "ί", "γ", "α", "ς", " ", "(", "4", "5", "c", "m", ")">>
\* "2 Πίτσες Γίγας"
t_2gigas == <<"2", " ", "Π", "ί", "τ", "σ", "ε", "ς", " ", "Γ", "ί", "γ", "α", "ς">>
\* "Πίτσες γίγας (40cm)"
c_gigas40 == <<"Π", "ί", "τ", "σ", "ε", "ς", " ", "γ", "ί", "γ", "α", "ς", " ", "(", "4", "0", "c", "m", ")">>
\* "Κανονική ή γίγας 38cm"
c_kanoniki_gigas38 == <<"Κ", "α", "ν", "ο", "ν", "ι", "κ", "ή", " ", "ή", " ", "γ", "ί", "γ", "α", "ς", " ", "3", "8", "c", "m">>
\* "Πίτσα γίγας 0cm"
c_gigas0 == <<"Π", "ί", "τ", "σ", "α", " ", "γ", "ί", "γ", "α", "ς", " ", "0", "c", "m">>
\* "36 cm"
d_36 == <<"3", "6", " ", "c", "m">>
\* "Προσφορές"
ct_offers == <<"Π", "ρ", "ο", "σ", "φ", "ο", "ρ", "έ", "ς">>
\* "22,00€"
p_2200 == <<"2", "2", ",", "0", "0", "€">>
\* "9,50€"
p_950 == <<"9", ",", "5", "0", "€">>
\* "€"
p_none == <<"€">>
\* "0,00€"
p_zero == <<"0", ",", "0", "0", "€">>
\* "12"
p_12 == <<"1", "2">>
\* "error"
w_error == <<"e", "r", "r", "o", "r">>

\* an object of the catalog with none of the keys the code reads
Obj ==
    [title |-> Absent, name |-> Absent, description |-> Absent,
     category_name |-> Absent, price |-> Absent, calculated_price |-> Absent,
     tiers |-> Absent, quantity |-> Absent, items |-> Absent,
     offers |-> Absent]

TierItem(cat, desc) == [Obj EXCEPT !.category_name = cat, !.description = desc]
Tier(qty, items) == [Obj EXCEPT !.quantity = qty, !.items = items]
Offer(title, price, calc, tiers) ==
    [Obj EXCEPT !.title = title, !.price = price, !.calculated_price = calc,
                !.tiers = tiers]
Category(name, title, items, offers) ==
    [Obj EXCEPT !.name = name, !.title = title, !.items = items,
                !.offers = offers]

TitlePool ==
    {Str(t_plain), Str(t_gigas40), Str(t_oikog), Str(t_zero), Str(t_burger),
     Absent, None}

\* pairs of the price and calculated_price fields
PricePool ==
    {<<Num(1800), Absent>>, <<None, Str(p_2200)>>, <<Absent, Str(p_2200)>>,
     <<Absent, Absent>>, <<Num(0), Str(p_2200)>>, <<Num(1250), Str(p_950)>>,
     <<None, Str(p_none)>>, <<Str(p_12), Absent>>}

TiersPool ==
    {Absent,
     List(<<Tier(Num(2), List(<<TierItem(Str(c_pizza30), Absent)>>))>>),
     List(<<Tier(Absent, List(<<TierItem(Str(c_gigas), Str(d_36))>>))>>),
     List(<<Tier(Num(1), List(<<TierItem(Str(c_drink), Absent)>>)),
            Tier(Num(3), List(<<TierItem(Str(c_oikog33), Absent)>>))>>),
     List(<<Tier(None, List(<<TierItem(Str(c_gigas), Absent)>>))>>),
     List(<<Tier(Num(1), List(<<TierItem(Str(c_gigas), Absent)>>)),
            Tier(Num(1), List(<<TierItem(Str(c_pizza30), Absent)>>))>>),
     List(<<Tier(Num(2), List(<<TierItem(Str(c_oikog), Absent)>>))>>),
     List(<<Tier(Num(2), Absent),
            Tier(Absent, List(<<TierItem(Absent, Str(d_36))>>))>>),
     List(<<Tier(Num(1), List(<<TierItem(Str(c_gigas), Absent)>>))>>),
     List(<<Obj, Tier(Absent, List(<<Obj>>))>>)}

\* offers that vary the diameter signals
SizeOffers ==
    {Offer(t, Num(1800), Absent, ts) : t \in TitlePool, ts \in TiersPool}

\* offers that vary the price signals
PriceOffers ==
    {Offer(t, pp[1], pp[2], ts) :
        t \in {Str(t_gigas40), Str(t_plain)}, pp \in PricePool,
        ts \in {Absent,
                List(<<Tier(Num(1), List(<<TierItem(Str(c_gigas), Absent)>>))>>)}}

\* offers of the catalogs with several offers
NarrowOffers ==
    {Offer(Str(t_plain), Num(1800), Absent,
           List(<<Tier(Num(1), List(<<TierItem(Str(c_gigas), Absent)>>))>>)),
     Offer(Str(t_gigas40), Num(1800), Absent,
           List(<<Tier(Num(2), List(<<TierItem(Str(c_pizza30), Absent)>>))>>)),
     Offer(None, Num(1800), Absent, Absent),
     Offer(Str(t_plain), Str(p_12), Absent,
           List(<<Tier(Num(2), List(<<TierItem(Str(c_pizza30), Absent)>>))>>)),
     Offer(Str(t_plain), Num(1500), Absent,
           List(<<Tier(Num(1), List(<<TierItem(Str(c_drink), Absent)>>)),
                  Tier(Num(3), List(<<TierItem(Str(c_oikog33), Absent)>>))>>)),
     Offer(Str(t_oikog), Absent, Str(p_2200), Absent)}

\* the plain item of a category: "2 Πίτσες οικογενειακές", 9.00
PlainItem ==
    [Obj EXCEPT !.title = Str(t_oikog), !.description = Str(c_oikog33),
                !.price = Num(900)]

\* the fields of a category other than its offers
CategoryFrames ==
    {<<Absent, Absent, Absent>>,
     <<Str(c_gigas45), Absent, Absent>>,
     <<Absent, Str(ct_offers), List(<<PlainItem>>)>>,
     <<Str(c_gigas45), Absent, List(<<PlainItem>>)>>}

MaxOffers == 2

\* the lists of NarrowOffers of a given length
RECURSIVE NarrowSeqs(_)
NarrowSeqs(n) ==
    IF n = 0 THEN {<<>>}
    ELSE {Append(q, o) : q \in NarrowSeqs(n - 1), o \in NarrowOffers}

\* a document with status "ok" and the given categories
OkDoc(categories) ==
    [status |-> Str(w_ok),
     data |-> Dict([menu |-> Dict([menu |-> Absent,
                                   categories |-> List(categories)]),
                    categories |-> Absent])]

\* one category holding one offer of SizeOffers
SizeDocs ==
    {OkDoc(<<Category(f[1], f[2], f[3], List(<<o>>))>>) :
        f \in CategoryFrames, o \in SizeOffers}

\* one category holding one offer of PriceOffers
PriceDocs ==
    {OkDoc(<<Category(n, Absent, Absent, List(<<o>>))>>) :
        n \in {Absent, Str(c_gigas45)}, o \in PriceOffers}

\* several NarrowOffers, all in one category or split over two categories
NarrowDocs ==
    UNION {{OkDoc(IF cut = Len(q)
                  THEN <<Category(n, Absent, Absent, List(q))>>
                  ELSE <<Category(n, Absent, Absent,
                                  List(SubSeq(q, 1, cut))),
                         Category(Absent, Absent, Absent,
                                  List(SubSeq(q, cut + 1, Len(q))))>>) :
               n \in {Absent, Str(c_gigas45)}, cut \in 1..Len(q)} :
           q \in UNION {NarrowSeqs(len) : len \in 2..MaxOffers}}

\* documents whose status is not "ok" or that lack an enclosing object
SampleCategories ==
    <<Category(Str(c_gigas45), Str(ct_offers), List(<<PlainItem>>),
               List(<<Offer(Str(t_gigas40), Num(1800), Absent, Absent)>>))>>

ShapeDocs ==
    {[OkDoc(SampleCategories) EXCEPT !.status = st] :
        st \in {Absent, None, Str(w_error)}}
    \cup
    {[status |-> Str(w_ok), data |-> d] :
        d \in {Absent,
               Dict([menu |-> Absent, categories |-> Absent]),
               Dict([menu |-> Dict(NoKeys), categories |-> Absent])}}
    \cup
    {OkDoc(<<>>), OkDoc(<<Obj>>)}

\* "2 Πίτσες Γίγας" at 18.00 with one tier whose first item is of the
\* category "Πίτσες γίγας (40cm)", for each quantity field of the tier
ExampleDoc(q) ==
    OkDoc(<<Category(Absent, Absent, Absent,
                     List(<<Offer(Str(t_2gigas), Num(1800), Absent,
                                  List(<<Tier(q, List(<<TierItem(
                                      Str(c_gigas40), Absent)>>))>>))>>))>>)

ExampleDocs == {ExampleDoc(q) : q \in {Absent, Num(1), Num(2), Num(3)}}

\* an offer whose price is negative, zero or positive, whose title holds a
\* diameter, "0cm" or a size name only, and whose pizza tier has a repeat
\* count of 0 or -1, followed by the offer "Πίτσα γίγας 40cm" at 12.50
GateOffers ==
    {Offer(Str(t), pp[1], pp[2], ts) :
        t \in {t_gigas40, t_zero, t_oikog},
        pp \in {<<Num(0 - 500), Absent>>, <<Num(0), Absent>>,
                <<Num(1800), Absent>>, <<None, Str(p_zero)>>},
        ts \in {Absent,
                List(<<Tier(Num(0),
                            List(<<TierItem(Str(c_gigas), Absent)>>))>>),
                List(<<Tier(Num(0 - 1),
                            List(<<TierItem(Str(c_gigas), Absent)>>))>>)}}

GateDocs ==
    {OkDoc(<<Category(Absent, ct, List(<<o>>),
                      List(<<o, Offer(Str(t_gigas40), Num(1250), Absent,
                                      Absent)>>))>>) :
        o \in GateOffers, ct \in {Absent, Str(ct_offers)}}

\* ratings in hundredths: none, 0, 0.01, 2.5, 4.3, 5.0 and 7.5
RatingPool ==
    {None, Num(0), Num(1), Num(250), Num(430), Num(500), Num(750)}

\* caller-supplied size_overrides
OverridePool ==
    {None, Map(EmptyMap), Map(n_gigas :> 42),
     Map((n_gigas :> 42) @@ (n_oikogeneiaki :> 38))}

(***************************************************************************)
(* State: one call of _parse_catalog_dict(data, size_overrides) followed   *)
(* by one call of catalog_to_deals on a file holding the same document     *)
(***************************************************************************)
VARIABLES
    data,            \* the catalog document
    rating,          \* the restaurant's rating in hundredths, or None
    size_overrides,  \* the caller's override map, or None
    pc,              \* the position in the two calls
    store_size_map,  \* the local store_size_map of the running call
    work,            \* the offers the running loop visits
    idx,             \* the position of the running loop in work / parsed
    parsed,          \* the list parse_catalog builds
    deals,           \* the list of Deals the running call builds
    dict_log,        \* per offer visited by _parse_catalog_dict: its outcome
    file_log,        \* per offer visited by catalog_to_deals: its outcome
    dict_out,        \* what _parse_catalog_dict returned or raised
    file_out,        \* what catalog_to_deals returned or raised
    call,            \* a single call of a pure function: its arguments
    ret,             \* what that call returned or raised
    restaurant_data, \* the restaurant list _scrape_all works through
    position,        \* the position of the loop of _scrape_all in the list
    results,         \* the list of Restaurant records _scrape_all builds
    scrape_out,      \* what _scrape_all returned
    _size_cache,     \* the scraper's _size_cache, kept from call to call
    fetch_calls      \* per call of fetch_and_parse_deals: the position of
                     \* the restaurant and the size_overrides passed

Pending == [k |-> "pending"]
IsPending(v) == v.k = "pending"

\* the variables of the single calls and of the batch
call_vars == <<call, ret>>
scrape_vars == <<restaurant_data, position, results, scrape_out, _size_cache,
                 fetch_calls>>

\* what no step of the two catalog calls changes: their arguments and the
\* variables of the single calls and of the batch
frame == <<data, rating, size_overrides, call_vars, scrape_vars>>

\* the variables of the two catalog calls
catalog_vars == <<data, rating, size_overrides, pc, store_size_map, work, idx,
                  parsed, deals, dict_log, file_log, dict_out, file_out>>

vars == <<catalog_vars, call_vars, scrape_vars>>

\* no single call and no batch is under way
NoCall == call = None /\ ret = Pending
NoScrape ==
    /\ restaurant_data = <<>>
    /\ position = 0
    /\ results = <<>>
    /\ scrape_out = Pending
    /\ _size_cache = Map(EmptyMap)
    /\ fetch_calls = <<>>

\* the record kept of one visited offer: which offer it was, the size map
\* _parse_offer was given and what it returned, and what became of the offer
\* ("deal" with the Deal built, "skip", or "raise")
LogEntry(w, p, outcome, deal) ==
    [cat |-> w.cat, kind |-> w.kind, pos |-> w.pos, offer |-> w.offer,
     map |-> store_size_map.m, parsed |-> p, outcome |-> outcome,
     deal |-> deal]

InitWith(docs, overrides) ==
    /\ NoCall /\ NoScrape
    /\ data \in docs
    /\ size_overrides \in overrides
    /\ pc = "dict_start"
    /\ store_size_map = Map(EmptyMap)
    /\ work = <<>>
    /\ idx = 1
    /\ parsed = <<>>
    /\ deals = <<>>
    /\ dict_log = <<>>
    /\ file_log = <<>>
    /\ dict_out = Pending
    /\ file_out = Pending

Init ==
    \/ InitWith(SizeDocs, OverridePool) /\ rating = None
    \/ InitWith(PriceDocs, {None, Map(n_gigas :> 42)}) /\ rating = None
    \/ InitWith(NarrowDocs, {None, Map(n_gigas :> 42)}) /\ rating = None
    \/ InitWith(ShapeDocs, {None, Map(n_gigas :> 42)}) /\ rating = None
    \/ InitWith(ExampleDocs, {None}) /\ rating \in RatingPool
    \/ InitWith(GateDocs, {None, Map(n_gigas :> 42)}) /\ rating = None

\* api_client._parse_catalog_dict, lines 131-144
DictStart ==
    /\ pc = "dict_start"
    /\ UNCHANGED <<data, rating, call_vars, scrape_vars, parsed, dict_log,
                   file_log, file_out>>
    /\ idx' = 1
    /\ deals' = <<>>
    /\ IF StatusNotOk(data)
       THEN /\ dict_out' = List(<<>>)
            /\ pc' = "file_start"
            /\ UNCHANGED <<size_overrides, store_size_map, work>>
       ELSE LET categories == CatalogCategories(data)
                discovered == IF IsRaise(categories) THEN categories
                              ELSE discover_store_sizes(categories.l)
            IN  IF IsRaise(discovered)
                THEN /\ dict_out' = discovered
                     /\ pc' = "file_start"
                     /\ UNCHANGED <<size_overrides, store_size_map, work>>
                ELSE /\ store_size_map'
                            = MergeOverrides(discovered, size_overrides)
                     /\ size_overrides'
                            = OverridesAfterMerge(discovered, size_overrides)
                     /\ work' = DictWork(data)
                     /\ pc' = "dict_loop"
                     /\ UNCHANGED dict_out

\* one iteration of the loop of api_client._parse_catalog_dict, lines 147-170
DictOffer ==
    /\ pc = "dict_loop"
    /\ idx <= Len(work)
    /\ UNCHANGED <<frame, store_size_map, work, parsed,
                   file_log, file_out>>
    /\ \E p \in {_parse_offer(work[idx].offer, store_size_map.m)} :
       LET w == work[idx]
           outcome == DictResolve(p, rating).outcome
           deal == DictResolve(p, rating).deal
       IN  /\ dict_log' = Append(dict_log, LogEntry(w, p, outcome, deal))
           /\ IF outcome = "raise"
              THEN /\ dict_out' = Raise("Exception")
                   /\ pc' = "file_start"
                   /\ UNCHANGED <<idx, deals>>
              ELSE /\ deals' = IF outcome = "deal" THEN Append(deals, deal)
                               ELSE deals
                   /\ idx' = idx + 1
                   /\ UNCHANGED <<pc, dict_out>>

\* api_client._parse_catalog_dict, line 172
DictReturn ==
    /\ pc = "dict_loop"
    /\ idx > Len(work)
    /\ dict_out' = List(deals)
    /\ pc' = "file_start"
    /\ UNCHANGED <<frame, store_size_map, work, idx, parsed,
                   deals, dict_log, file_log, file_out>>

\* catalog_parser.parse_catalog, lines 132-141, called at line 289
FileStart ==
    /\ pc = "file_start"
    /\ UNCHANGED <<frame, dict_log, file_log, dict_out>>
    /\ idx' = 1
    /\ parsed' = <<>>
    /\ deals' = <<>>
    /\ IF StatusNotOk(data)
       THEN /\ file_out' = Raise("ValueError")
            /\ pc' = "done"
            /\ UNCHANGED <<store_size_map, work>>
       ELSE LET categories == CatalogCategories(data)
                discovered == IF IsRaise(categories) THEN categories
                              ELSE discover_store_sizes(categories.l)
            IN  IF IsRaise(discovered)
                THEN /\ file_out' = discovered
                     /\ pc' = "done"
                     /\ UNCHANGED <<store_size_map, work>>
                ELSE /\ store_size_map' = discovered
                     /\ work' = FileWork(data)
                     /\ pc' = "file_parse"
                     /\ UNCHANGED file_out

\* one iteration of the loops of parse_catalog, lines 149-161
FileOffer ==
    /\ pc = "file_parse"
    /\ idx <= Len(work)
    /\ UNCHANGED <<frame, store_size_map, work, deals,
                   dict_log, dict_out>>
    /\ \E p \in {_parse_offer(work[idx].offer, store_size_map.m)} :
       LET w == work[idx]
           gate == IF IsRaise(p) THEN "raise" ELSE ParseGate(p)
       IN  IF gate = "raise"
           THEN /\ file_out' = Raise("Exception")
                /\ pc' = "done"
                /\ file_log' = Append(file_log, LogEntry(w, p, "raise", None))
                /\ UNCHANGED <<idx, parsed>>
           ELSE /\ parsed' = IF gate = "keep"
                             THEN Append(parsed, [w |-> w, p |-> p])
                             ELSE parsed
                /\ file_log' = IF gate = "keep" THEN file_log
                               ELSE Append(file_log,
                                           LogEntry(w, p, "skip", None))
                /\ idx' = idx + 1
                /\ UNCHANGED <<pc, file_out>>

\* parse_catalog returns (line 163) and catalog_to_deals starts its loop
FileParsed ==
    /\ pc = "file_parse"
    /\ idx > Len(work)
    /\ pc' = "file_convert"
    /\ idx' = 1
    /\ UNCHANGED <<frame, store_size_map, work, parsed, deals,
                   dict_log, file_log, dict_out, file_out>>

\* one iteration of the loop of catalog_to_deals, lines 292-315
FileConvert ==
    /\ pc = "file_convert"
    /\ idx <= Len(parsed)
    /\ UNCHANGED <<frame, store_size_map, work, parsed,
                   dict_log, dict_out>>
    /\ LET w == parsed[idx].w
           p == parsed[idx].p
           size_cm == OverrideSizeCm(p, size_overrides)
           gate == ConvertGate(size_cm, p)
           metrics == IF gate = "deal"
                      THEN calculate_vfm(p.quantity, size_cm, p.price, rating)
                      ELSE None
           outcome == IF IsRaise(metrics) THEN "raise" ELSE gate
           deal == IF outcome = "deal" THEN MakeDeal(p, size_cm, metrics)
                   ELSE None
       IN  /\ file_log' = Append(file_log, LogEntry(w, p, outcome, deal))
           /\ IF outcome = "raise"
              THEN /\ file_out' = Raise("Exception")
                   /\ pc' = "done"
                   /\ UNCHANGED <<idx, deals>>
              ELSE /\ deals' = IF outcome = "deal" THEN Append(deals, deal)
                               ELSE deals
                   /\ idx' = idx + 1
                   /\ UNCHANGED <<pc, file_out>>

\* catalog_to_deals, line 317
FileReturn ==
    /\ pc = "file_convert"
    /\ idx > Len(parsed)
    /\ file_out' = List(deals)
    /\ pc' = "done"
    /\ UNCHANGED <<frame, store_size_map, work, idx, parsed,
                   deals, dict_log, file_log, dict_out>>

Next ==
    \/ DictStart
    \/ DictOffer
    \/ DictReturn
    \/ FileStart
    \/ FileOffer
    \/ FileParsed
    \/ FileConvert
    \/ FileReturn

Spec == Init /\ [][Next]_vars

TypeOK ==
    /\ pc \in {"dict_start", "dict_loop", "file_start", "file_parse",
               "file_convert", "done"}
    /\ idx \in 1..(Len(work) + 1)
    /\ IsMap(store_size_map)

(***************************************************************************)
(* Single calls of calculate_vfm, of the ranker and of the discoverer      *)
(***************************************************************************)
\* no catalog call is under way
NoCatalog ==
    /\ data = None /\ rating = None /\ size_overrides = None
    /\ pc = "idle"
    /\ store_size_map = Map(EmptyMap)
    /\ work = <<>> /\ idx = 1 /\ parsed = <<>> /\ deals = <<>>
    /\ dict_log = <<>> /\ file_log = <<>>
    /\ dict_out = Pending /\ file_out = Pending

\* calls of calculate_vfm; prices in cents, also zero and negative
VfmCalls ==
    {[fn |-> "calculate_vfm", quantity |-> q, diameter_cm |-> Num(d),
      price |-> Num(pr), rating |-> r] :
        q \in 1..3, d \in {25, 30, 40, 45},
        pr \in {0 - 500, 0, 300, 950, 1800}, r \in RatingPool}

MaxDeals == 6

\* the sequences of length n of distinct numbers of 1..MaxDeals
RECURSIVE DistinctSeqs(_)
DistinctSeqs(n) ==
    IF n = 0 THEN {<<>>}
    ELSE UNION {{Append(q, v) :
                    v \in (1..MaxDeals) \ {q[i] : i \in 1..Len(q)}} :
                q \in DistinctSeqs(n - 1)}

\* the sequences of length n of numbers of 1..2
RECURSIVE TiedSeqs(_)
TiedSeqs(n) ==
    IF n = 0 THEN {<<>>}
    ELSE {Append(q, v) : q \in TiedSeqs(n - 1), v \in 1..2}

\* a list of Deals: the deal at position i is named i and has the i-th
\* number as its vfm_index
DealList(indexes) ==
    [i \in 1..Len(indexes) |->
        [name |-> i, vfm |-> [vfm_index |-> indexes[i]]]]

RankCalls ==
    {[fn |-> "rank", deals |-> DealList(q)] :
        q \in UNION {DistinctSeqs(n) \cup TiedSeqs(n) : n \in 0..MaxDeals}}

\* the texts of the fields the discoverer scans
FragmentPool ==
    {Str(c_gigas40), Str(c_gigas45), Str(c_oikog33), Str(c_gigas),
     Str(c_kanoniki_gigas38), Str(c_gigas0)}

\* two categories that hold the five texts of f in the fields the
\* discoverer scans: the first category's name, the title of its item, the
\* category_name of its offer's tier item; the second category's title and
\* the description of its offer's tier item
FragmentCategories(f) ==
    << Category(f[1], Absent,
                List(<<[Obj EXCEPT !.title = f[2]]>>),
                List(<<Offer(Absent, Absent, Absent,
                             List(<<Tier(Absent,
                                 List(<<TierItem(f[3], Absent)>>))>>))>>)),
       Category(Absent, f[4], Absent,
                List(<<Offer(Absent, Absent, Absent,
                             List(<<Tier(Absent,
                                 List(<<TierItem(Absent, f[5])>>))>>))>>)) >>

DiscoverCalls ==
    {[fn |-> "discover_store_sizes", categories |-> FragmentCategories(f),
      fragments |-> f] :
        f \in [1..5 -> FragmentPool]}

\* "0 Πίτσες γίγας"
t_0gigas == <<"0", " ", "Π", "ί", "τ", "σ", "ε", "ς", " ", "γ", "ί", "γ", "α", "ς">>
\* "πίτσα γίγας 40cm"
t_lower40 == <<"π", "ί", "τ", "σ", "α", " ", "γ", "ί", "γ", "α", "ς", " ", "4", "0", "c", "m">>
\* "ΠΊΤΣΑ ΓΊΓΑΣ 40cm"
t_upper40 == <<"Π", "Ί", "Τ", "Σ", "Α", " ", "Γ", "Ί", "Γ", "Α", "Σ", " ", "4", "0", "c", "m">>
\* "Πίτσες (40cm)"
c_pizza40 == <<"Π", "ί", "τ", "σ", "ε", "ς", " ", "(", "4", "0", "c", "m", ")">>
\* "Πίτσα μικρή 25cm"
c_mikri25 == <<"Π", "ί", "τ", "σ", "α", " ", "μ", "ι", "κ", "ρ", "ή", " ", "2", "5", "c", "m">>
\* "Πίτσα μεγάλη 36cm"
c_megali36 == <<"Π", "ί", "τ", "σ", "α", " ", "μ", "ε", "γ", "ά", "λ", "η", " ", "3", "6", "c", "m">>
\* "Πίτσα κανονική 30cm"
c_kanoniki30 == <<"Π", "ί", "τ", "σ", "α", " ", "κ", "α", "ν", "ο", "ν", "ι", "κ", "ή", " ", "3", "0", "c", "m">>

\* one text in one of the five scanned fields of FragmentCategories, the
\* other four fields holding the empty text
SoleFragmentPool ==
    {Str(c_mikri25), Str(c_megali36), Str(c_kanoniki30),
     Str(c_kanoniki_gigas38), Str(c_gigas40), Str(c_oikog33), Str(c_gigas),
     Str(c_drink)}

SoleFragmentCalls ==
    {[fn |-> "discover_store_sizes", categories |-> FragmentCategories(f),
      fragments |-> f] :
        f \in {[i \in 1..5 |-> IF i = at THEN s ELSE EmptyStr] :
                  s \in SoleFragmentPool, at \in 1..5}}

\* the titles of the offers given to _parse_offer alone
OfferTitles ==
    {Str(t_plain), Str(t_oikog), Str(t_0gigas), Str(t_gigas40),
     Str(t_lower40), Str(t_upper40), Str(t_burger)}

\* the tiers of these offers: a tier without items, and the tiers of one item
\* for each repeat count (absent, 0, -1, 2) and each category name
OfferTiers ==
    {Tier(Num(5), Absent)}
    \cup
    {Tier(q, List(<<TierItem(Str(c), Absent)>>)) :
        q \in {Absent, Num(0), Num(0 - 1), Num(2)},
        c \in {c_drink, c_pizza30, c_pizza40, c_gigas}}

MaxTiers == 2

\* the lists of OfferTiers of a given length
RECURSIVE TierSeqs(_)
TierSeqs(n) ==
    IF n = 0 THEN {<<>>}
    ELSE {Append(q, t) : q \in TierSeqs(n - 1), t \in OfferTiers}

OfferCalls ==
    {[fn |-> "_parse_offer",
      offer |-> Offer(t, Num(1800), Absent, List(ts)),
      store_size_map |-> EmptyMap] :
        t \in OfferTitles, ts \in UNION {TierSeqs(n) : n \in 0..MaxTiers}}

CallInit ==
    /\ NoCatalog /\ NoScrape
    /\ ret = Pending
    /\ \/ call \in VfmCalls
       \/ call \in RankCalls
       \/ call \in DiscoverCalls
       \/ call \in SoleFragmentCalls
       \/ call \in OfferCalls

\* vfm.calculate_vfm(quantity, diameter_cm, price, rating)
CallCalculateVfm ==
    /\ call.fn = "calculate_vfm" /\ ret = Pending
    /\ ret' = calculate_vfm(call.quantity, call.diameter_cm, call.price,
                            call.rating)
    /\ UNCHANGED <<call, catalog_vars, scrape_vars>>

\* deals.sort(key=lambda d: d.vfm.vfm_index, reverse=True) and
\* top_deals = deals[:TOP_DEALS_LIMIT]: the list after the sort, and the slice
CallRank ==
    /\ call.fn = "rank" /\ ret = Pending
    /\ ret' = [k |-> "ranked", deals |-> SortDeals(call.deals),
               top_deals |-> TopDeals(call.deals)]
    /\ UNCHANGED <<call, catalog_vars, scrape_vars>>

\* catalog_parser.discover_store_sizes(categories)
CallDiscover ==
    /\ call.fn = "discover_store_sizes" /\ ret = Pending
    /\ ret' = discover_store_sizes(call.categories)
    /\ UNCHANGED <<call, catalog_vars, scrape_vars>>

\* catalog_parser._parse_offer(offer, store_size_map)
CallParseOffer ==
    /\ call.fn = "_parse_offer" /\ ret = Pending
    /\ ret' = _parse_offer(call.offer, call.store_size_map)
    /\ UNCHANGED <<call, catalog_vars, scrape_vars>>

CallNext == CallCalculateVfm \/ CallRank \/ CallDiscover \/ CallParseOffer

CallSpec == CallInit /\ [][CallNext]_vars

(***************************************************************************)
(* The batch: EfoodScraper._scrape_all with config.use_api                 *)
(***************************************************************************)
\* lines 150-170 of api_client.py for one more offer: acc is the list built
\* so far or the exception that ended the loop, r what became of the offer
DictFold(acc, r) ==
    IF IsRaise(acc) \/ r.outcome = "raise" THEN Raise("Exception")
    ELSE IF r.outcome = "deal" THEN List(Append(acc.l, r.deal))
    ELSE acc

\* the loop of api_client._parse_catalog_dict over the offers of work
RECURSIVE DictDeals(_, _, _)
DictDeals(work_list, size_map, rating_value) ==
    IF work_list = <<>> THEN List(<<>>)
    ELSE DictFold(
             DictDeals(SubSeq(work_list, 1, Len(work_list) - 1), size_map,
                       rating_value),
             DictResolve(_parse_offer(work_list[Len(work_list)].offer,
                                      size_map.m),
                         rating_value))

\* what lines 138-172 do with the discovered map, or with the exception of
\* reading the categories
DictFromDiscovered(doc, discovered, rating_value, overrides) ==
    IF IsRaise(discovered) THEN discovered
    ELSE DictDeals(DictWork(doc), MergeOverrides(discovered, overrides),
                   rating_value)

\* api_client._parse_catalog_dict as one call: the list of Deals returned,
\* or the exception raised
_parse_catalog_dict(doc, rating_value, overrides) ==
    IF StatusNotOk(doc) THEN List(<<>>)
    ELSE IF IsRaise(CatalogCategories(doc))
         THEN CatalogCategories(doc)
    ELSE DictFromDiscovered(doc,
                            discover_store_sizes(CatalogCategories(doc).l),
                            rating_value, overrides)

\* models.Restaurant
Restaurant(name, url, rating_value, is_closed, deal_list) ==
    [k |-> "restaurant", name |-> name, url |-> url, rating |-> rating_value,
     is_closed |-> is_closed, deals |-> deal_list]

\* One entry of the restaurant list, with what its processing meets:
\*   name, url, rating, is_closed  the dict _get_restaurant_list built; the
\*                   rating is a number read off the card, or null
\*   skip            what _should_skip(name) returns
\*   page_reached    whether the navigation of lines 486-517 got through
\*   page_name       the name the page shows (a number), or null
\*   page_rating     the first rating of the page within RATING_MIN and
\*                   RATING_MAX, or null
\*   escapes         whether a statement outside the try blocks raises
\*   shop_id         whether a shop id was found (lines 528-565)
\*   overrides       what _apply_restaurant_overrides put in _size_cache
\*   catalog         the document fetch_catalog returns (a dict), or its
\*                   exception
ListEntry(name, list_rating, page_rating, overrides, catalog) ==
    [name |-> name, url |-> name, rating |-> list_rating, is_closed |-> FALSE,
     skip |-> FALSE, page_reached |-> TRUE, page_name |-> None,
     page_rating |-> page_rating, escapes |-> FALSE, shop_id |-> TRUE,
     overrides |-> overrides, catalog |-> catalog]

\* a catalog whose first offer raises on its null title, so that the call never
\* reaches the offer after it
RaisingCatalog ==
    OkDoc(<<Category(Absent, Absent, Absent,
                     List(<<Offer(None, Num(1800), Absent, Absent),
                            Offer(Str(t_gigas40), Num(1800), Absent,
                                  Absent)>>))>>)

\* two offers, the second the better value
TwoOfferCatalog ==
    OkDoc(<<Category(Absent, Absent, Absent,
                     List(<<Offer(Str(t_gigas40), Num(1800), Absent, Absent),
                            Offer(Str(t_gigas40), Num(1250), Absent,
                                  Absent)>>))>>)

ListEntries ==
    {ListEntry(1, Num(430), None, None, Dict(ExampleDoc(Num(2)))),
     [ListEntry(2, Num(430), None, None, Dict(ExampleDoc(Num(2))))
         EXCEPT !.skip = TRUE],
     [ListEntry(3, Num(430), None, None, Dict(ExampleDoc(Num(2))))
         EXCEPT !.escapes = TRUE, !.is_closed = TRUE],
     [ListEntry(4, None, None, None, Dict(ExampleDoc(Num(2))))
         EXCEPT !.shop_id = FALSE, !.page_reached = FALSE],
     ListEntry(5, Num(430), Num(480), None, Raise("Exception")),
     [ListEntry(6, Num(750), None, None, Dict(ExampleDoc(Num(2))))
         EXCEPT !.page_reached = FALSE],
     ListEntry(7, Num(1), None, None, Dict(ExampleDoc(Num(2)))),
     [ListEntry(8, None, Num(480), Map(n_gigas :> 42),
               Dict(TwoOfferCatalog))
         EXCEPT !.page_name = Num(18)],
     ListEntry(9, Num(750), Num(480), None, Dict(ExampleDoc(Num(2)))),
     ListEntry(10, Num(430), None, None, Dict(RaisingCatalog)),
     ListEntry(11, Num(0), None, None,
               Dict([ExampleDoc(Num(2)) EXCEPT !.status = Str(w_error)])),
     ListEntry(12, Num(430), None, Map(n_oikogeneiaki :> 38),
               Dict(ExampleDoc(Num(2)))),
     ListEntry(13, Num(430), None, Map(EmptyMap), Dict(ExampleDoc(Num(2))))}

MaxRestaurants == 2

\* the lists of ListEntries of a given length
RECURSIVE EntrySeqs(_)
EntrySeqs(n) ==
    IF n = 0 THEN {<<>>}
    ELSE {Append(q, e) : q \in EntrySeqs(n - 1), e \in ListEntries}

\* data after lines 460-517: the copy of the entry with the name and the
\* rating the page gave, when it was reached and gave one
PageData(entry) ==
    [entry EXCEPT
        !.name = IF entry.page_reached /\ entry.page_name # None
                 THEN entry.page_name.n ELSE entry.name,
        !.rating = IF entry.page_reached /\ entry.page_rating # None
                   THEN entry.page_rating ELSE entry.rating]

\* lines 582-615: the Restaurant built from what fetch_and_parse_deals
\* returned or raised
RestaurantOf(d, fetched) ==
    Restaurant(d.name, d.url, d.rating, d.is_closed,
               IF IsRaise(fetched) THEN <<>> ELSE TopDeals(fetched.l))

\* EfoodScraper._populate_cache_from_override: the sizes of the matching
\* configuration written into the cache
_populate_cache_from_override(cache, sizes) ==
    Map([n \in DOMAIN cache.m \cup DOMAIN sizes |->
            IF n \in DOMAIN sizes THEN sizes[n] ELSE cache.m[n]])

\* the cache filled without being emptied first
SizeCacheAt_NoClear(cache, d) ==
    IF IsMap(d.overrides)
    THEN _populate_cache_from_override(cache, d.overrides.m)
    ELSE cache

\* _size_cache after lines 578-579: clear(), then the sizes of the
\* configuration that matches the restaurant, when there is one
SizeCacheAt(cache, d) ==
    IF IsMap(d.overrides)
    THEN _populate_cache_from_override(Map(EmptyMap), d.overrides.m)
    ELSE Map(EmptyMap)

\* line 580: self._size_cache.copy() if self._size_cache else None
SizeOverridesFrom(cache) == IF DOMAIN cache.m # {} THEN cache ELSE None

\* the processing of the entry gets as far as line 578
ReachesFetch(entry) == ~entry.escapes /\ entry.shop_id

\* lines 567-589 for the data d of the page and the cache left by the
\* restaurants before
ProcessData(d, cache) ==
    IF ~d.shop_id THEN Restaurant(d.name, d.url, d.rating, d.is_closed, <<>>)
    ELSE RestaurantOf(d, IF IsRaise(d.catalog) THEN d.catalog
                         ELSE _parse_catalog_dict(
                                  d.catalog.d, d.rating,
                                  SizeOverridesFrom(SizeCacheAt(cache, d))))

\* EfoodScraper._process_restaurant_via_api: the Restaurant returned, or the
\* exception that escapes
_process_restaurant_via_api(entry, cache) ==
    IF entry.escapes THEN Raise("Exception")
    ELSE ProcessData(PageData(entry), cache)

\* a failed restaurant left out of the results
AfterProcess_DropFailed(result_list, entry, outcome) ==
    IF IsRaise(outcome) THEN result_list
    ELSE Append(result_list, outcome)

\* results after lines 126-143 of _scrape_all for one entry, outcome being
\* what its processing returned or raised
AfterProcess(result_list, entry, outcome) ==
    IF IsRaise(outcome)
    THEN Append(result_list,
                Restaurant(entry.name, entry.url, entry.rating,
                           entry.is_closed, <<>>))
    ELSE Append(result_list, outcome)

\* _scrape_all at line 120, with the restaurant list cut to max_restaurants
ScrapeInit ==
    /\ NoCatalog
    /\ NoCall
    /\ restaurant_data \in UNION {EntrySeqs(n) : n \in 0..MaxRestaurants}
    /\ position = 0
    /\ results = <<>>
    /\ scrape_out = Pending
    /\ _size_cache = Map(EmptyMap)
    /\ fetch_calls = <<>>

\* lines 121-126: an entry on the skip list
ScrapeSkip ==
    /\ IsPending(scrape_out)
    /\ position < Len(restaurant_data)
    /\ restaurant_data[position + 1].skip
    /\ position' = position + 1
    /\ UNCHANGED <<catalog_vars, call_vars, restaurant_data, results,
                   scrape_out, _size_cache, fetch_calls>>

\* lines 121-146: an entry that is processed
ScrapeRestaurant ==
    /\ IsPending(scrape_out)
    /\ position < Len(restaurant_data)
    /\ ~restaurant_data[position + 1].skip
    /\ results' = AfterProcess(results, restaurant_data[position + 1],
                               _process_restaurant_via_api(
                                   restaurant_data[position + 1],
                                   _size_cache))
    /\ IF ReachesFetch(restaurant_data[position + 1])
       THEN /\ _size_cache'
                   = SizeCacheAt(_size_cache,
                                 PageData(restaurant_data[position + 1]))
            /\ fetch_calls'
                   = Append(fetch_calls,
                            [at |-> position + 1,
                             size_overrides |->
                                 SizeOverridesFrom(_size_cache')])
       ELSE UNCHANGED <<_size_cache, fetch_calls>>
    /\ position' = position + 1
    /\ UNCHANGED <<catalog_vars, call_vars, restaurant_data, scrape_out>>

\* line 148
ScrapeReturn ==
    /\ IsPending(scrape_out)
    /\ position = Len(restaurant_data)
    /\ scrape_out' = List(results)
    /\ UNCHANGED <<catalog_vars, call_vars, restaurant_data, position,
                   results, _size_cache, fetch_calls>>

ScrapeNext == ScrapeSkip \/ ScrapeRestaurant \/ ScrapeReturn

ScrapeSpec == ScrapeInit /\ [][ScrapeNext]_vars

(***************************************************************************)
(* Properties                                                              *)
(***************************************************************************)
\* P holds of every offer visited so far by either entry point
AllLogged(P(_)) ==
    /\ \A i \in 1..Len(dict_log) : P(dict_log[i])
    /\ \A i \in 1..Len(file_log) : P(file_log[i])

SomeLogged(P(_)) ==
    \/ \E i \in 1..Len(dict_log) : P(dict_log[i])
    \/ \E i \in 1..Len(file_log) : P(file_log[i])

\* _parse_offer accepted the offer of entry e
IsParsed(e) == e.parsed.k = "parsed"

\* the N of the first "Ncm" of text when N > 0, else None
Marker(text) ==
    LET cm == parse_diameter(text) IN IF IsNum(cm) /\ cm.n > 0 THEN cm ELSE None

\* the tiers of an offer that have a first item, and those first items
TiersWithItems(offer) ==
    SelectSeq(Elems(offer.tiers), LAMBDA t : IsList(t.items) /\ t.items.l # <<>>)

FirstItems(offer) ==
    LET ts == TiersWithItems(offer) IN [i \in 1..Len(ts) |-> ts[i].items.l[1]]

TextOf(v) == IF IsStr(v) THEN v.s ELSE <<>>

\* the category names of the first items of the pizza tiers, in tier order
PizzaTierCats(offer) ==
    LET cats == [i \in 1..Len(FirstItems(offer)) |->
                    TextOf(FirstItems(offer)[i].category_name)]
    IN  SelectSeq(cats, IsPizzaTierText)

\* the first element of seq that is not None
RECURSIVE FirstValue(_)
FirstValue(seq) ==
    IF seq = <<>> THEN None
    ELSE IF ~IsNone(Head(seq)) THEN Head(seq) ELSE FirstValue(Tail(seq))

\* steps (a) to (e) of the diameter resolution of the offer of entry e
StepTitle(e) == Marker(e.parsed.title)

StepTierCat(e) ==
    LET cats == PizzaTierCats(e.offer)
    IN  IF cats = <<>> THEN None ELSE Marker(cats[Len(cats)])

StepDescription(e) ==
    FirstValue([i \in 1..Len(FirstItems(e.offer)) |->
                   Marker(TextOf(FirstItems(e.offer)[i].description))])

StepStoreMap(e) ==
    IF IsStr(e.parsed.size_name) /\ e.parsed.size_name.s \in DOMAIN e.map
    THEN Num(e.map[e.parsed.size_name.s]) ELSE None

StepDefault(e) ==
    IF IsStr(e.parsed.size_name) /\ e.parsed.size_name.s \in DOMAIN SIZE_DIAMETERS
    THEN Num(SIZE_DIAMETERS[e.parsed.size_name.s]) ELSE None

\* C1: for every offer _parse_offer accepts whose title holds an explicit
\* "Ncm" with N > 0, the resolved size_cm is N, whatever markers the tier
\* items carry and whatever the store size map and the default table hold.
C1_TitleDiameterWins ==
    AllLogged(LAMBDA e :
        (IsParsed(e) /\ ~IsNone(Marker(e.parsed.title)))
            => e.parsed.size_cm = Marker(e.parsed.title))

\* title "Πίτσα γίγας 40cm", tier text "Πίτσες (30cm)", a store map that
\* gives γίγας 42: resolved to 40
C1_Witness ==
    SomeLogged(LAMBDA e :
        /\ IsParsed(e)
        /\ e.parsed.title = t_gigas40
        /\ PizzaTierCats(e.offer) = <<c_pizza30>>
        /\ n_gigas \in DOMAIN e.map /\ e.map[n_gigas] = 42
        /\ e.parsed.size_cm = Num(40))

\* C2: the resolved size_cm of every accepted offer is the value of the
\* first of the steps (a) title, (b) candidate pizza-tier category name,
\* (c) first-item descriptions in tier order, (d) store size map entry of
\* the size name, (e) default table entry of the size name that yields a
\* diameter, and None when no step yields one.
C2_StrictPriorityOrder ==
    AllLogged(LAMBDA e :
        IsParsed(e) =>
            LET chain == FirstValue(<<StepTitle(e), StepTierCat(e),
                                      StepDescription(e), StepStoreMap(e),
                                      StepDefault(e)>>)
            IN  IF IsNone(chain) THEN ~Truthy(e.parsed.size_cm)
                ELSE e.parsed.size_cm = chain)

\* step (d) decides: no marker in the title or the tiers, and the store map
\* gives the size name a diameter other than the default table's
C2_Witness ==
    SomeLogged(LAMBDA e :
        /\ IsParsed(e)
        /\ IsNone(StepTitle(e)) /\ IsNone(StepTierCat(e))
        /\ IsNone(StepDescription(e))
        /\ ~IsNone(StepStoreMap(e))
        /\ StepStoreMap(e) # StepDefault(e)
        /\ e.parsed.size_cm = StepStoreMap(e))

\* the caller's override of the size name of entry e, or None
OverrideOf(e) ==
    IF /\ IsMap(size_overrides) /\ IsStr(e.parsed.size_name)
       /\ e.parsed.size_name.s \in DOMAIN size_overrides.m
    THEN Num(size_overrides.m[e.parsed.size_name.s]) ELSE None

\* what discover_store_sizes finds in the document for the size name of e
DiscoveredOf(e) ==
    LET found == discover_store_sizes(CatalogCategories(data).l)
    IN  IF IsMap(found) /\ IsStr(e.parsed.size_name)
           /\ e.parsed.size_name.s \in DOMAIN found.m
        THEN Num(found.m[e.parsed.size_name.s]) ELSE None

\* C3: in catalog_to_deals, a Deal made from an offer whose title holds an
\* explicit "Ncm" has diameter N even when size_overrides gives the offer's
\* size name another diameter.
C3_TitleBeatsOverride ==
    \A i \in 1..Len(file_log) :
        LET e == file_log[i]
        IN  (/\ e.outcome = "deal"
             /\ ~IsNone(Marker(e.parsed.title))
             /\ ~IsNone(OverrideOf(e))
             /\ OverrideOf(e) # Marker(e.parsed.title))
                => e.deal.size_cm = Marker(e.parsed.title).n

\* C4: in _parse_catalog_dict, a Deal made from an offer with no "Ncm" in
\* its title, its candidate tier category name or its first-item
\* descriptions, whose size name is a key of size_overrides, has the
\* override's diameter, whatever the discoverer found and whatever the
\* default table holds for that name.
C4_OverrideBeatsDiscoveredAndDefault ==
    \A i \in 1..Len(dict_log) :
        LET e == dict_log[i]
        IN  (/\ IsParsed(e)
             /\ IsNone(StepTitle(e)) /\ IsNone(StepTierCat(e))
             /\ IsNone(StepDescription(e))
             /\ ~IsNone(OverrideOf(e)))
                => /\ e.parsed.size_cm = OverrideOf(e)
                   /\ e.outcome = "deal" => e.deal.size_cm = OverrideOf(e).n

\* size name γίγας: the discoverer found 45, the default table holds 40, the
\* override is 42, and the Deal has 42
C4_Witness ==
    \E i \in 1..Len(dict_log) :
        LET e == dict_log[i]
        IN  /\ IsParsed(e)
            /\ IsNone(StepTitle(e)) /\ IsNone(StepTierCat(e))
            /\ IsNone(StepDescription(e))
            /\ e.parsed.size_name = Str(n_gigas)
            /\ DiscoveredOf(e) = Num(45)
            /\ StepDefault(e) = Num(40)
            /\ OverrideOf(e) = Num(42)
            /\ e.outcome = "deal"
            /\ e.deal.size_cm = 42

\* the keywords extract_size_from_text looks for, in a text
HasSizeKeyword(text) ==
    \E kw \in {w_gigas, w_gigas_plain, w_oikogeneiak, w_megal_acc, w_kanonik,
               w_mikr} : Contains(Lower(text), kw)

\* the title, the pizza tiers' category names and the first-item
\* descriptions of the offer of entry e hold no "Ncm", and the title and the
\* pizza tiers' category names hold no size keyword
NoSizeSignal(e) ==
    /\ IsNone(StepTitle(e))
    /\ IsNone(StepDescription(e))
    /\ ~HasSizeKeyword(e.parsed.title)
    /\ \A i \in 1..Len(PizzaTierCats(e.offer)) :
           /\ IsNone(Marker(PizzaTierCats(e.offer)[i]))
           /\ ~HasSizeKeyword(PizzaTierCats(e.offer)[i])

\* C5: a pizza offer with no "Ncm" in its title, its pizza tiers' category
\* names and its first-item descriptions, and with no size keyword in the
\* title and those category names, has no diameter and yields no Deal, in
\* either entry point.
C5_NoSignalNoDeal ==
    AllLogged(LAMBDA e :
        (IsParsed(e) /\ NoSizeSignal(e))
            => /\ ~Truthy(e.parsed.size_cm)
               /\ e.outcome # "deal"
               /\ IsNone(e.deal))

\* "2 Πίτσες" at 18.00 with a tier of drinks or no tier: priced, skipped
C5_Witness ==
    \E i \in 1..Len(dict_log) :
        LET e == dict_log[i]
        IN  /\ IsParsed(e)
            /\ NoSizeSignal(e)
            /\ e.parsed.title = t_plain
            /\ e.parsed.price = Num(1800)
            /\ e.outcome = "skip"

\* the Deals of the entries of a log, in order
DealsOf(log) ==
    LET made == SelectSeq(log, LAMBDA e : e.outcome = "deal")
    IN  [i \in 1..Len(made) |-> made[i].deal]

\* C6: every Deal of either entry point comes from an offer whose resolved
\* price and resolved diameter are numbers, an offer resolved with a null
\* price, or with a price and a null diameter, is skipped, and the returned
\* list holds exactly the Deals made that way.
C6_NoDealWithoutPriceAndDiameter ==
    /\ AllLogged(LAMBDA e :
           e.outcome = "deal"
               => /\ IsParsed(e)
                  /\ IsNum(e.parsed.price) /\ e.parsed.price.n > 0
                  /\ IsNum(e.parsed.size_cm))
    /\ AllLogged(LAMBDA e :
           (/\ IsParsed(e)
            /\ \/ IsNone(e.parsed.price)
               \/ IsNum(e.parsed.price) /\ IsNone(e.parsed.size_cm))
               => e.outcome = "skip")
    /\ IsList(dict_out) => dict_out.l = DealsOf(dict_log)
    /\ IsList(file_out) => file_out.l = DealsOf(file_log)

\* both entry points have returned; one offer had a price and no diameter,
\* or a diameter and no price, and the returned lists lack it
C6_Witness ==
    /\ pc = "done"
    /\ IsList(dict_out) /\ IsList(file_out)
    /\ \E i \in 1..Len(dict_log) :
           /\ IsParsed(dict_log[i])
           /\ IsNone(dict_log[i].parsed.size_cm)
           /\ IsNum(dict_log[i].parsed.price)
           /\ dict_log[i].outcome = "skip"
    /\ \E i \in 1..Len(file_log) :
           /\ IsParsed(file_log[i])
           /\ IsNone(file_log[i].parsed.size_cm)
           /\ IsNum(file_log[i].parsed.price)
           /\ file_log[i].outcome = "skip"
    /\ Len(dict_out.l) < Len(dict_log)
    /\ Len(file_out.l) < Len(file_log)

\* the price the calculated-price strings of the input documents stand for,
\* in cents: "22,00€" is 22.00, "9,50€" is 9.50, "0,00€" is 0.00, "€" and an
\* absent or null field give no price
CalculatedOracle(v) ==
    IF v = Str(p_2200) THEN Num(2200)
    ELSE IF v = Str(p_950) THEN Num(950)
    ELSE IF v = Str(p_zero) THEN Num(0)
    ELSE None

C8_NotOkYieldsEmptyList ==
    (pc = "done" /\ StatusNotOk(data))
        => (dict_out = List(<<>>) /\ file_out = List(<<>>))

\* a field that is absent or holds a value of the type the code expects
StrOrAbsent(v) == IsAbsent(v) \/ IsStr(v)

ListOrAbsent(v, Ok(_)) ==
    IsAbsent(v) \/ (IsList(v) /\ \A i \in 1..Len(v.l) : Ok(v.l[i]))

WellTypedTierItem(item) ==
    StrOrAbsent(item.category_name) /\ StrOrAbsent(item.description)

WellTypedTier(tier) ==
    /\ IsAbsent(tier.quantity) \/ IsNum(tier.quantity)
    /\ ListOrAbsent(tier.items, WellTypedTierItem)

\* an offer, or an item of a category; the price may be null
WellTypedOffer(offer) ==
    /\ StrOrAbsent(offer.title) /\ StrOrAbsent(offer.name)
    /\ StrOrAbsent(offer.description)
    /\ IsAbsent(offer.price) \/ IsNone(offer.price) \/ IsNum(offer.price)
    /\ StrOrAbsent(offer.calculated_price) \/ IsNone(offer.calculated_price)
    /\ ListOrAbsent(offer.tiers, WellTypedTier)

WellTypedCategory(category) ==
    /\ StrOrAbsent(category.name) /\ StrOrAbsent(category.title)
    /\ ListOrAbsent(category.items, WellTypedOffer)
    /\ ListOrAbsent(category.offers, WellTypedOffer)

WellTypedDoc(doc) ==
    /\ doc.status = Str(w_ok)
    /\ \/ IsAbsent(doc.data)
       \/ /\ IsDict(doc.data)
          /\ \/ IsAbsent(doc.data.d.menu)
             \/ /\ IsDict(doc.data.d.menu)
                /\ ListOrAbsent(doc.data.d.menu.d.categories,
                                WellTypedCategory)

\* the offer with the default of each .get of _parse_offer written out in
\* place of the absent field
FilledTierItem(item) ==
    [item EXCEPT !.category_name = Get(item, "category_name", EmptyStr),
                 !.description = Get(item, "description", EmptyStr)]

FilledTier(tier) ==
    LET items == Elems(tier.items)
    IN  [tier EXCEPT !.quantity = Get(tier, "quantity", Num(1)),
                     !.items = List([i \in 1..Len(items) |->
                                        FilledTierItem(items[i])])]

FilledOffer(offer) ==
    LET tiers == Elems(offer.tiers)
    IN  [offer EXCEPT !.title = Get(offer, "title", EmptyStr),
                      !.price = Get(offer, "price", None),
                      !.calculated_price = Get(offer, "calculated_price", None),
                      !.tiers = List([i \in 1..Len(tiers) |->
                                         FilledTier(tiers[i])])]

C10_OfferFailureIsolated ==
    /\ (pc = "file_start" /\ dict_log # <<>>)
           => /\ Len(dict_log) = Len(work)
              /\ \A j \in 1..Len(work) :
                     LET own == DictResolve(_parse_offer(work[j].offer,
                                                         store_size_map.m),
                                            rating)
                     IN  own.outcome = "deal"
                             => /\ IsList(dict_out)
                                /\ \E k \in 1..Len(dict_out.l) :
                                       dict_out.l[k] = own.deal
    /\ (pc = "done" /\ file_log # <<>>)
           => Len(file_log) = Len(work)

(***************************************************************************)
(* Properties of the single calls (CallSpec)                               *)
(***************************************************************************)
IsVfmCall == call.fn = "calculate_vfm" /\ ~IsPending(ret)
IsRankCall == call.fn = "rank" /\ ~IsPending(ret)
IsDiscoverCall == call.fn = "discover_store_sizes" /\ ~IsPending(ret)

Range(q) == {q[i] : i \in 1..Len(q)}

\* C16: calculate_vfm raises ValueError, and returns no metrics, for every
\* price that is zero or negative, whatever the quantity, the diameter and
\* the rating; for every price above zero it returns metrics.
C16_InvalidPriceRaises ==
    IsVfmCall =>
        IF call.price.n <= 0 THEN ret = Raise("ValueError")
        ELSE ret.k = "vfm"

\* a call with the price 0.00 and a rating has raised ValueError
C16_Witness ==
    /\ IsVfmCall
    /\ call.price.n = 0
    /\ call.rating = Num(430)
    /\ ret = Raise("ValueError")

\* C17: the rating_factor of the metrics is the rating divided by 5, with 5.0
\* standing in for a rating only when the rating is null: null gives 1.0,
\* 2.5 gives 0.5 and a rating of 0 gives 0.0.
C17_RatingFactorOnlyNullIsPerfect ==
    (IsVfmCall /\ ret.k = "vfm") =>
        ret.rating_factor =
            RoundDiv(IF call.rating = None THEN 500 ELSE call.rating.n, 5)

\* C14: for a list of Deals with distinct vfm_index values, the kept list is
\* strictly descending by vfm_index, holds min(TOP_DEALS_LIMIT, len) deals,
\* and these are the deals of the input with the highest vfm_index.
C14_TopDealsSortedAndHighest ==
    (IsRankCall /\ \A i, j \in 1..Len(call.deals) :
                       i # j => call.deals[i].vfm.vfm_index
                                    # call.deals[j].vfm.vfm_index) =>
        LET kept == ret.top_deals
        IN  /\ \A i \in 1..(Len(kept) - 1) :
                   kept[i].vfm.vfm_index > kept[i + 1].vfm.vfm_index
            /\ Len(kept) = Min({TOP_DEALS_LIMIT, Len(call.deals)})
            /\ Range(kept) \subseteq Range(call.deals)
            /\ \A d \in Range(call.deals) \ Range(kept) :
                   \A e \in Range(kept) :
                       e.vfm.vfm_index > d.vfm.vfm_index

\* six deals with distinct indexes, the best of them last in the input, have
\* been cut to the five best with the best first
C14_Witness ==
    /\ IsRankCall
    /\ Len(call.deals) = TOP_DEALS_LIMIT + 1
    /\ call.deals[1].vfm.vfm_index = 1
    /\ call.deals[TOP_DEALS_LIMIT + 1].vfm.vfm_index = TOP_DEALS_LIMIT + 1
    /\ Len(ret.top_deals) = TOP_DEALS_LIMIT
    /\ ret.top_deals[1] = call.deals[TOP_DEALS_LIMIT + 1]
    /\ call.deals[1] \notin Range(ret.top_deals)

\* C15: the sort is stable: the sorted list holds the deals of the input in
\* descending order of vfm_index, deals of equal vfm_index in the order they
\* had in the input, so that of tied deals at the cut the earlier are kept.
C15_RankerStable ==
    IsRankCall =>
        /\ Len(ret.deals) = Len(call.deals)
        /\ Range(ret.deals) = Range(call.deals)
        /\ \A i, j \in 1..Len(ret.deals) :
               i < j =>
                   \/ ret.deals[i].vfm.vfm_index > ret.deals[j].vfm.vfm_index
                   \/ /\ ret.deals[i].vfm.vfm_index
                             = ret.deals[j].vfm.vfm_index
                      /\ ret.deals[i].name < ret.deals[j].name
        /\ \A d \in Range(call.deals) \ Range(ret.top_deals) :
               \A e \in Range(ret.top_deals) :
                   e.vfm.vfm_index = d.vfm.vfm_index => e.name < d.name

\* of six deals with the same vfm_index the first five are kept, in the
\* order of the input
C15_Witness ==
    /\ IsRankCall
    /\ Len(call.deals) = TOP_DEALS_LIMIT + 1
    /\ \A i \in 1..Len(call.deals) : call.deals[i].vfm.vfm_index = 2
    /\ ret.top_deals = SubSeq(call.deals, 1, TOP_DEALS_LIMIT)

\* the normalized size names of the discoverer's keyword table
SizeNames == {size_keywords[i][2] : i \in 1..Len(size_keywords)}

\* text holds some keyword of the table that stands for the size name
HasKeywordOf(text, name) ==
    \E i \in 1..Len(size_keywords) :
        /\ size_keywords[i][2] = name
        /\ Contains(Lower(text), size_keywords[i][1])

\* the size name of the first keyword of the table that text holds is name
FirstKeywordIs(text, name) ==
    \E i \in 1..Len(size_keywords) :
        /\ size_keywords[i][2] = name
        /\ Contains(Lower(text), size_keywords[i][1])
        /\ \A j \in 1..(i - 1) : ~Contains(Lower(text), size_keywords[j][1])

\* the map holds name with the diameter of the first fragment among hits
RegisteredFirst(hits, name) ==
    hits # {} =>
        /\ IsMap(ret)
        /\ name \in DOMAIN ret.m
        /\ ret.m[name] = parse_diameter(call.fragments[Min(hits)].s).n

\* C12 as stated: for every size name, if some scanned fragment holds a
\* keyword of that name and an "Ncm" marker, the map holds the name with the
\* diameter of the first such fragment in scan order.
C12_AnyKeywordedFragmentRegisters ==
    IsDiscoverCall =>
        \A name \in SizeNames :
            RegisteredFirst(
                {i \in DOMAIN call.fragments :
                    /\ HasKeywordOf(call.fragments[i].s, name)
                    /\ parse_diameter(call.fragments[i].s) # None},
                name)

\* C12: a scanned fragment counts for one size name only, that of the first
\* keyword of the table it holds, and only with an "Ncm" marker of N > 0; for
\* every size name, if some scanned fragment counts for it, the map holds the
\* name with the diameter of the first such fragment in scan order, and no
\* later fragment overwrites it.
C12_FirstSeenWins ==
    IsDiscoverCall =>
        \A name \in SizeNames :
            RegisteredFirst(
                {i \in DOMAIN call.fragments :
                    /\ FirstKeywordIs(call.fragments[i].s, name)
                    /\ Truthy(parse_diameter(call.fragments[i].s))},
                name)

\* the first category is named "Πίτσες γίγας (45cm)" and the title of the
\* second is "Πίτσες γίγας (40cm)": γίγας is 45; the family size of a later
\* tier item is found too
C12_Witness ==
    /\ IsDiscoverCall
    /\ call.fragments[1] = Str(c_gigas45)
    /\ call.fragments[4] = Str(c_gigas40)
    /\ call.fragments[5] = Str(c_oikog33)
    /\ IsMap(ret)
    /\ ret.m[n_gigas] = 45
    /\ ret.m[n_oikogeneiaki] = 33

(***************************************************************************)
(* Properties of the two catalog calls, continued (Spec)                   *)
(***************************************************************************)
\* the one Deal of the example: "2 Πίτσες Γίγας", two pizzas of 40 cm at
\* 18.00, no rating, vfm_index round(2 * pi * 20^2 / 18.00, 2) = 139.63
IsExampleDeal(out) ==
    /\ IsList(out)
    /\ Len(out.l) = 1
    /\ out.l[1].name = t_2gigas
    /\ out.l[1].quantity = 2
    /\ out.l[1].size_cm = 40
    /\ out.l[1].price = 1800
    /\ out.l[1].vfm.quantity = 2
    /\ out.l[1].vfm.diameter_cm = 40
    /\ out.l[1].vfm.rating_factor = 100
    /\ out.l[1].vfm.vfm_index = 13963

VisitedAndKept(log, out, ci, kind, pos) ==
    \E i \in 1..Len(log) :
        /\ log[i].cat = ci /\ log[i].kind = kind /\ log[i].pos = pos
        /\ (/\ IsParsed(log[i])
            /\ IsNum(log[i].parsed.price) /\ log[i].parsed.price.n > 0
            /\ Truthy(log[i].parsed.size_cm))
               => /\ log[i].outcome = "deal"
                  /\ log[i].deal \in Range(out.l)

\* a call that returned the list out for a document with status "ok" has
\* visited every offer of every category and every plain item of every
\* offers/deals category
VisitsOffersAndItems(log, out) ==
    (IsList(out) /\ ~StatusNotOk(data)) =>
        LET categories == CatalogCategories(data).l
        IN  \A ci \in 1..Len(categories) :
                /\ \A pos \in 1..Len(Elems(Get(categories[ci], "offers",
                                               EmptyList))) :
                       VisitedAndKept(log, out, ci, "offers", pos)
                /\ IsOfferCat(categories[ci]) =>
                       \A pos \in 1..Len(Elems(Get(categories[ci], "items",
                                                   EmptyList))) :
                           VisitedAndKept(log, out, ci, "items", pos)

\* C19: the pipeline runs the Offer Resolver on every offer of every category
\* and, for a category whose title holds "προσφορές", "offers" or "deals",
\* on every plain item of it; a plain item of such a category with a price
\* and a diameter yields a Deal.
C19_PlainItemsOfOfferCategoriesResolved ==
    /\ VisitsOffersAndItems(dict_log, dict_out)
    /\ VisitsOffersAndItems(file_log, file_out)

\* the same of catalog_to_deals alone
C19_FileVisitsOffersAndItems == VisitsOffersAndItems(file_log, file_out)

Processed ==
    SelectSeq(SubSeq(restaurant_data, 1, position), LAMBDA e : ~e.skip)

\* the processing of the entry fails: an exception escapes it, or the fetch
\* or the parsing of its catalog raises
ProcessingFails(e) ==
    \/ e.escapes
    \/ /\ e.shop_id
       /\ \/ IsRaise(e.catalog)
          \/ IsRaise(_parse_catalog_dict(e.catalog.d, PageData(e).rating,
                                         e.overrides))

\* C11: at every point of the loop of _scrape_all the results hold exactly
\* one Restaurant record for every entry gone through that is not skipped,
\* in list order, with an empty deal list when its processing failed; and
\* the loop returns only after the last entry, with these results.
C11_BatchNeverAborted ==
    /\ Len(results) = Len(Processed)
    /\ \A i \in 1..Len(results) :
           /\ results[i].url = Processed[i].url
           /\ ProcessingFails(Processed[i]) => results[i].deals = <<>>
    /\ ~IsPending(scrape_out) =>
           /\ position = Len(restaurant_data)
           /\ scrape_out = List(results)

\* a batch has returned two records: the first, of a restaurant whose
\* processing failed, without deals, the second with deals
C11_Witness ==
    /\ ~IsPending(scrape_out)
    /\ Len(restaurant_data) = 2
    /\ ProcessingFails(restaurant_data[1])
    /\ Len(scrape_out.l) = 2
    /\ scrape_out.l[1].deals = <<>>
    /\ scrape_out.l[2].deals # <<>>

\* C18: every VFMMetrics record of a Restaurant of the results has its
\* derived fields non-negative and its rating_factor above 0 and at most 1,
\* whatever rating the restaurant list or the page gave.
C18_RatingFactorWithinUnitInterval ==
    \A i \in 1..Len(results) :
        \A j \in 1..Len(results[i].deals) :
            LET m == results[i].deals[j].vfm
            IN  /\ m.single_area_cm2 >= 0
                /\ m.total_area_cm2 >= 0
                /\ m.area_per_euro >= 0
                /\ m.vfm_index >= 0
                /\ m.rating_factor > 0
                /\ m.rating_factor <= 100

(***************************************************************************)
(* Properties of single calls of _parse_offer (CallSpec)                   *)
(***************************************************************************)
IsOfferCall == call.fn = "_parse_offer" /\ ~IsPending(ret)
OfferParsed == IsOfferCall /\ ret.k = "parsed"

\* the title of the offer of the call
CallTitle == call.offer.title.s

\* C21: the pizza filter of _parse_offer is case-insensitive: the offer is
\* rejected (None is returned) if and only if its title holds the pizza stem
\* in no letter case; lower-case, capitalised and upper-case stems all pass.
C21_PizzaFilterCaseInsensitive ==
    IsOfferCall => (ret = None <=> ~Contains(Lower(CallTitle), w_pits))

\* the pizza tiers of an offer, in tier order: the tiers with a first item
\* whose category name matches the pizza pattern
PizzaTiers(offer) ==
    SelectSeq(TiersWithItems(offer),
              LAMBDA t : IsPizzaTierText(TextOf(t.items.l[1].category_name)))

\* the repeat count of a tier, 1 when the tier has none
RepeatCount(tier) == IF IsAbsent(tier.quantity) THEN 1 ELSE tier.quantity.n

RECURSIVE SumOfRepeatCounts(_)
SumOfRepeatCounts(tiers) ==
    IF tiers = <<>> THEN 0
    ELSE RepeatCount(Head(tiers)) + SumOfRepeatCounts(Tail(tiers))

C23_SizeNameFromFirstPizzaTierOnly ==
    (/\ OfferParsed
     /\ PizzaTiers(call.offer) # <<>>
     /\ extract_size_from_text(PizzaTierCats(call.offer)[1]) = None) =>
        ret.size_name = extract_size_from_text(CallTitle)

\* C24: the candidate size text is the category name of the first pizza
\* tier: with no "Ncm" in the title and an "Ncm" in the category name of the
\* first pizza tier, the diameter is that N, whatever later pizza tiers hold.
C24_FirstPizzaTierSizeTextWins ==
    (/\ OfferParsed
     /\ PizzaTiers(call.offer) # <<>>
     /\ Marker(CallTitle) = None
     /\ Marker(PizzaTierCats(call.offer)[1]) # None) =>
        ret.size_cm = Marker(PizzaTierCats(call.offer)[1])

\* the number in front of the pizza stem in the title, 1 when there is none
TitleNumber(title) ==
    LET ms == DigitsThenMatches(title, {w_Pits, w_pits})
    IN  IF ms = {} THEN 1
        ELSE DigitsToInt(title, Min(ms), RunEnd(title, Min(ms), Digits))

\* C25: the quantity of every resolved offer is 1 or more, whatever the
\* repeat counts of its tiers and the number in its title; for an offer
\* without a pizza tier it is the number in front of the pizza stem in the
\* title, 1 when there is none or when that number is 0.
C25_QuantityFallbackAndFloor ==
    OfferParsed =>
        /\ ret.quantity >= 1
        /\ PizzaTiers(call.offer) = <<>> =>
               ret.quantity = IF TitleNumber(CallTitle) >= 1
                              THEN TitleNumber(CallTitle) ELSE 1

\* "2 Πίτσες οικογενειακές" with a tier of two drinks only: two pizzas
C25_Witness ==
    /\ OfferParsed
    /\ CallTitle = t_oikog
    /\ call.offer.tiers.l
         = <<Tier(Num(2), List(<<TierItem(Str(c_drink), Absent)>>))>>
    /\ ret.quantity = 2

(***************************************************************************)
(* The discoverer's keyword table against the resolver's keyword rules     *)
(***************************************************************************)
\* the call scans one text only: the other scanned fields are empty
SoleFragmentAt(i) ==
    /\ call.fragments[i] # EmptyStr
    /\ \A j \in DOMAIN call.fragments : j # i => call.fragments[j] = EmptyStr

\* C26: the discoverer's keyword table covers the resolver's keyword rules:
\* for a catalog that holds one text in which extract_size_from_text finds a
\* size name K and which holds an "Ncm" marker, discover_store_sizes returns
\* a map with an entry for K; so for "μικρ" and for the accented "μεγάλ".
C26_DiscovererCoversResolverKeywords ==
    IsDiscoverCall =>
        \A i \in DOMAIN call.fragments :
            (/\ SoleFragmentAt(i)
             /\ extract_size_from_text(call.fragments[i].s) # None
             /\ parse_diameter(call.fragments[i].s) # None) =>
                /\ IsMap(ret)
                /\ extract_size_from_text(call.fragments[i].s).s
                       \in DOMAIN ret.m

(***************************************************************************)
(* The size cache over a batch of restaurants (ScrapeSpec)                 *)
(***************************************************************************)
\* the sizes of the override configuration that matches the entry
OwnSizes(e) == IF IsMap(e.overrides) THEN e.overrides.m ELSE EmptyMap

\* every entry of the map passed is an entry of the sizes
OnlyEntriesOf(passed, sizes) ==
    IsMap(passed) =>
        \A n \in DOMAIN passed.m :
            n \in DOMAIN sizes /\ passed.m[n] = sizes[n]

\* C27: the size map is rebuilt per restaurant: the size_overrides passed to
\* the pipeline for a restaurant hold only entries of the override
\* configuration that matches that restaurant, and all of them; no entry
\* cached for an earlier restaurant is passed for a later one.
C27_SizeCacheRebuiltPerRestaurant ==
    \A i \in 1..Len(fetch_calls) :
        LET passed == fetch_calls[i].size_overrides
            own == OwnSizes(restaurant_data[fetch_calls[i].at])
        IN  /\ OnlyEntriesOf(passed, own)
            /\ IF own = EmptyMap THEN passed = None ELSE passed = Map(own)

\* a restaurant configured with γίγας 42 was processed before one without a
\* configuration, for which no size_overrides were passed
C27_Witness ==
    /\ Len(fetch_calls) = 2
    /\ fetch_calls[1].size_overrides = Map(n_gigas :> 42)
    /\ fetch_calls[2].size_overrides = None
    /\ restaurant_data[fetch_calls[2].at].overrides = None
    /\ _size_cache = Map(EmptyMap)

(***************************************************************************)
(* Properties of the two catalog calls: what reaches calculate_vfm (Spec)  *)
(***************************************************************************)
\* every Deal of the list has a price above 0, a diameter of 1 or more and a
\* quantity of 1 or more
ValidDeals(out) ==
    IsList(out) =>
        \A i \in 1..Len(out.l) :
            /\ out.l[i].price > 0
            /\ out.l[i].size_cm >= 1
            /\ out.l[i].quantity >= 1

\* the offer of the entry got through the gates and calculate_vfm raised
VfmRaised(e) ==
    e.outcome = "raise" /\ IsParsed(e) /\ IsNum(e.parsed.price)

\* C28: the pipeline never calls calculate_vfm with a price of 0 or less or
\* with a null or zero diameter: no call of calculate_vfm made by either
\* entry point raises, and every Deal either entry point returns has a price
\* above 0, a diameter of 1 or more and a quantity of 1 or more.
C28_PipelineNeverPassesInvalidPrice ==
    /\ ValidDeals(dict_out)
    /\ ValidDeals(file_out)
    /\ \A i \in 1..Len(dict_log) : ~VfmRaised(dict_log[i])
    /\ \A i \in 1..Len(file_log) : ~VfmRaised(file_log[i])
    /\ \A i \in 1..Len(deals) :
           deals[i].price > 0 /\ deals[i].size_cm >= 1 /\ deals[i].quantity >= 1

\* both entry points have returned the one Deal of the second offer, after
\* skipping a first offer that has a diameter and the price -5.00
C28_Witness ==
    /\ pc = "done"
    /\ IsList(dict_out) /\ Len(dict_out.l) = 1
    /\ IsList(file_out) /\ Len(file_out.l) = 1
    /\ IsParsed(dict_log[1])
    /\ dict_log[1].parsed.price = Num(0 - 500)
    /\ dict_log[1].parsed.size_cm = Num(40)
    /\ dict_log[1].outcome = "skip"
    /\ IsParsed(file_log[1])
    /\ file_log[1].parsed.price = Num(0 - 500)
    /\ file_log[1].outcome = "skip"

\* the name, quantity, diameter and price of the Deals of a list
DealCores(out) ==
    [i \in 1..Len(out.l) |->
        <<out.l[i].name, out.l[i].quantity, out.l[i].size_cm, out.l[i].price>>]

\* C29: the two entry points are equivalent: for every catalog whose status
\* is "ok", every rating and every size_overrides, _parse_catalog_dict and
\* catalog_to_deals return the same Deals in the same order (name, quantity,
\* diameter and price), or both raise.
C29_EntryPointsEquivalent ==
    (pc = "done" /\ ~StatusNotOk(data)) =>
        IF IsList(dict_out) /\ IsList(file_out)
        THEN DealCores(dict_out) = DealCores(file_out)
        ELSE IsRaise(dict_out) /\ IsRaise(file_out)

\* the number of offers of the catalog, over all its categories
RECURSIVE NumberOfOffers(_)
NumberOfOffers(categories) ==
    IF categories = <<>> THEN 0
    ELSE Len(Elems(Get(Head(categories), "offers", EmptyList)))
         + NumberOfOffers(Tail(categories))

\* entry a of the log is of an offer that comes before the offer of entry b
\* in the catalog: in an earlier category, or earlier in the same category
OfferBefore(a, b) == a.cat < b.cat \/ (a.cat = b.cat /\ a.pos < b.pos)

\* C30: the Deals _parse_catalog_dict returns are in the order of their
\* offers in the catalog (category order, then offer order within the
\* category); every offer is visited once at most and gives one Deal at
\* most, named after its title; the Deals are no more than the offers.
C30_DocumentOrderNoDuplicates ==
    IsList(dict_out) =>
        /\ dict_out.l = DealsOf(dict_log)
        /\ Len(dict_out.l) <= NumberOfOffers(CatalogCategories(data).l)
        /\ \A i, j \in 1..Len(dict_log) :
               i < j => OfferBefore(dict_log[i], dict_log[j])
        /\ \A i \in 1..Len(dict_log) :
               /\ dict_log[i].kind = "offers"
               /\ dict_log[i].offer
                    = CatalogCategories(data).l[dict_log[i].cat]
                          .offers.l[dict_log[i].pos]
               /\ dict_log[i].outcome = "deal" =>
                      Str(dict_log[i].deal.name) = dict_log[i].offer.title

\* two categories of one offer each: the Deal of "Πίτσα γίγας 40cm" of the
\* second category is returned after the Deal of "2 Πίτσες" of the first
C30_Witness ==
    /\ IsList(dict_out)
    /\ Len(CatalogCategories(data).l) = 2
    /\ Len(dict_out.l) = 2
    /\ dict_out.l[1].name = t_plain
    /\ dict_out.l[2].name = t_gigas40
    /\ dict_log[1].cat = 1
    /\ dict_log[2].cat = 2

====
